---- MODULE Spec2Model ----
(***************************************************************************)
(* A model of the Sailfin bootstrap compiler: the module loader            *)
(* (bootstrap/module_loader.py), the driver (bootstrap/bootstrap.py), the   *)
(* entry point and the unique names emitted by the code generator           *)
(* (bootstrap/code_generator.py, bootstrap/utils.py) and the channel of     *)
(* the generated program (bootstrap/runtime_support.py).                    *)
(***************************************************************************)
EXTENDS Integers, Sequences, FiniteSets, TLC

VARIABLES
    \* ---- module loader (ModuleLoader) ----
    disk,             \* the import statements of every .sfn file on disk
    loaded_modules,   \* ModuleLoader.loaded_modules: key -> (module_name, temp_file)
    loading_modules,  \* ModuleLoader.loading_modules
    temp_files,       \* ModuleLoader.temp_files
    stack,            \* the active load_sailfin_module calls, outermost first
    ret,              \* how the most recent load_sailfin_module call ended
    compiles,         \* history: per path, how often it was compiled and cached
    firstArtifact,    \* history: per path, the artifact its first compilation cached
    cycleMembers,     \* history: the paths of every import cycle that was run into
    circularSeen,     \* history: the current outermost call ran into an import cycle
    \* ---- driver (compile_and_run) ----
    drv_pc,           \* the stage compile_and_run is about to run, or "exited"
    drv_verbose,      \* argument verbose
    drv_run_output,   \* argument run_output
    drv_output0,      \* the output file before the run
    drv_output,       \* the output file now
    drv_executed,     \* exec(target_code, namespace) was called
    drv_exit,         \* the exit code of the process, -1 while it runs
    drv_ran,          \* history: the stages started so far, in order
    drv_failed,       \* history: the stage that raised, "none" if none did
    drv_exc,          \* history: the class of the exception that was raised
    \* ---- code generator: two generator instances on one AST ----
    gen_ast,          \* the Program both generators visit
    gen_pos,          \* per generator, the next statement of visit_Program's loop
    gen_code,         \* per generator, self.code
    gen_imports,      \* per generator, self.imports
    gen_tests,        \* per generator, self.test_functions
    gen_routines,     \* per generator, self.top_level_routines
    gen_out,          \* per generator, what visit_Program returned
    \* ---- the emitted entry point, executed ----
    ep_program,       \* what the compiled Program holds at top level
    ep_pc,            \* the position in the emitted "if __name__ == ..." block
    ep_results,       \* the outcome of every test run so far, in order
    ep_routine,       \* per top-level routine: "unrun", "running", "done"
    ep_main,          \* main: "uncalled", "running", "done"
    ep_loop,          \* asyncio.run was called
    ep_exit,          \* the exit status of the process, -1 while it runs
    ep_early,         \* history: main started while a routine was not done
    \* ---- a channel of the generated program ----
    ch_form,          \* how the source constructs the channel
    ch_n,             \* the capacity the source asks for
    ch_hint,          \* the variable name looks like a channel to the generator
    ch_queue,         \* asyncio.Queue._queue
    ch_getters,       \* asyncio.Queue._getters: the receivers waiting, in order
    ch_recv,          \* per receiver task: "idle", "waiting", "woken"
    ch_left,          \* per sender task, the sends it still has to make
    ch_sent,          \* history: the values enqueued, in order
    ch_received,      \* history: the values dequeued, in order
    ch_last,          \* history: how the most recent send ended
    \* ---- the channel scenario: a sender routine and a receiver loop ----
    sc_form,          \* how the source constructs the channel
    sc_cap,           \* the capacity the source asks for
    sc_n,             \* the sender sends 1..sc_n
    sc_yield,         \* the sender awaits (asyncio.sleep(0)) after every send
    sc_ready,         \* the event loop's ready queue, the task to run next first
    sc_cur,           \* the task that is running, "none" between two tasks
    sc_next,          \* the value the sender sends next
    sc_sender,        \* the sender task: "ready", "done", "failed"
    sc_receiver,      \* the receiver task: "ready", "waiting"
    sc_queue,         \* asyncio.Queue._queue
    sc_printed,       \* the values printed so far, in order
    sc_error,         \* the exception a send raised, "none" if none did
    sc_end,           \* "running", then how the program ended
    \* ---- the parsers, run on one token list ----
    pr_family,        \* the family the input is drawn from
    pr_core,          \* the tokens of the expression under test
    pr_ctx,           \* where the expression stands: "expression", "let", "if"
    pr_min,           \* the minPrecedence parseBinaryExpression is called with
    pr_tokens,        \* the token list _tokenize returns, EOF included
    pr_result,        \* what the bootstrap parser made of it, NoResult before
    pr_self,          \* what the self-hosted parser made of it, NoResult before
    \* ---- the token stream under parse_program / parseProgram ----
    ts_impl,          \* which parser: "bootstrap" or "selfhosted"
    ts_tokens,        \* the token list (the bootstrap one ends with the EOF token)
    ts_index,         \* the cursor (_index, pos), counted from 1
    ts_consumed,      \* the cursor positions advance has returned a token from, in order
    ts_pc,            \* "loop", "statement", "program", "returned" or "raised"
    \* ---- the lexers, one iteration of the scanning loop at a time ----
    lx_impl,          \* which lexer: "bootstrap" (PLY rules) or "selfhosted" (lex)
    lx_source,        \* the source text, a sequence of characters
    lx_pos,           \* the position of the lexer, counted from 0
    lx_tokens,        \* the types of the tokens made so far
    lx_at,            \* the position the last iteration started at, -1 before the first
    lx_branch,        \* the rule or branch the last iteration took
    lx_status,        \* "lexing", "returned", or the exception raised
    \* ---- a return, an await or a throw at a position of the program ----
    ps_path,          \* the declarations and blocks around the statement, outermost first
    ps_leaf,          \* the class of the statement's node
    ps_stage,         \* "validate", "generate", "done" or "failed"
    ps_valid,         \* what validate did: "none" before, "ok", "ValidationError"
    ps_code,          \* the lines the code generator has appended
    \* ---- a match statement, compiled and run ----
    mt_arms,          \* the patterns of the arms, in textual order
    mt_value,         \* the value of the scrutinee
    mt_code,          \* the lines emitted for the match and for the statement after it
    mt_line,          \* the line of mt_code the run stands on, 0 before it starts
    mt_taken,         \* the arm whose body ran, 0 when none did
    mt_status,        \* "generate", "running", "after" or the exception raised
    \* ---- one ASTValidator validating struct declarations one after another ----
    vl_params,        \* current_type_params
    vl_prev,          \* prev_type_params of the call in progress
    vl_before,        \* current_type_params when the last call began
    vl_pc,            \* "idle" between calls, "members" inside a struct declaration
    vl_last,          \* how the last call ended: "none", "returned", "raised"
    vl_calls,         \* the number of calls so far
    vl_members,       \* the number of members the call in progress has validated
    \* ---- the scan pass of the code generator over one function ----
    rd_path,          \* the nodes from the body of f down to the statement, outermost first
    rd_leaf,          \* the class of the statement: "Routine" or "PrintStatement"
    rd_pos,           \* how many nodes of the path the detector has entered
    rd_current,       \* current_function of the detector
    rd_set,           \* functions_with_routines
    rd_pc,            \* "walk" or "done"
    \* ---- the emission of a program with module-scope variables, functions and tests ----
    gv_prog,          \* the top-level statements of the program
    gv_pos,           \* how many of them visit_Program has visited
    gv_globals,       \* global_variables
    gv_funcs,         \* per emitted function: its position, global_variables when its body was emitted, and its global declaration
    \* ---- the context of the code generator while it visits nested nodes ----
    cg_ctx,           \* indent_level, in_function and current_function_name
    cg_frames,        \* the visit_* calls in progress, outermost first: the node class, the locals old_in_function and old_function_name, and the context at entry
    cg_last,          \* the context at entry of the visit that completed last, NoVisit while a visit begins
    cg_pc,            \* "visiting" inside visit_Program's loop, "assembled" after it
    \* ---- the self-hosted parser on an expression followed by a token that is no operator ----
    ss_ops,           \* the operators of the expression, in order
    ss_term,          \* the kind of the token after the expression
    ss_min,           \* the minPrecedence parseBinaryExpression is called with
    ss_expr,          \* what parseBinaryExpression made of the tokens, NoResult before
    ss_stmt,          \* what parseStatement made of the tokens, NoResult before
    \* ---- a _TokenStream under calls of its methods in any order ----
    tc_tokens,        \* _tokens, the list _tokenize returned
    tc_index,         \* _index, counted from 1
    tc_out,           \* what the last call returned: a token type, "None", "True", "False" or "ParseError"
    tc_ended          \* history: at_end() was true before some earlier call

loaderVars == <<disk, loaded_modules, loading_modules, temp_files, stack, ret,
                compiles, firstArtifact, cycleMembers, circularSeen>>

driverVars == <<drv_pc, drv_verbose, drv_run_output, drv_output0, drv_output,
                drv_executed, drv_exit, drv_ran, drv_failed, drv_exc>>

genVars == <<gen_ast, gen_pos, gen_code, gen_imports, gen_tests, gen_routines, gen_out>>

entryVars == <<ep_program, ep_pc, ep_results, ep_routine, ep_main, ep_loop,
               ep_exit, ep_early>>

chanVars == <<ch_form, ch_n, ch_hint, ch_queue, ch_getters, ch_recv, ch_left,
              ch_sent, ch_received, ch_last>>

scenVars == <<sc_form, sc_cap, sc_n, sc_yield, sc_ready, sc_cur, sc_next,
              sc_sender, sc_receiver, sc_queue, sc_printed, sc_error, sc_end>>

parseVars == <<pr_family, pr_core, pr_ctx, pr_min, pr_tokens, pr_result, pr_self>>

streamVars == <<ts_impl, ts_tokens, ts_index, ts_consumed, ts_pc>>

lexVars == <<lx_impl, lx_source, lx_pos, lx_tokens, lx_at, lx_branch,
             lx_status>>

posVars == <<ps_path, ps_leaf, ps_stage, ps_valid, ps_code>>

matchVars == <<mt_arms, mt_value, mt_code, mt_line, mt_taken, mt_status>>

validatorVars == <<vl_params, vl_prev, vl_before, vl_pc, vl_last, vl_calls,
                   vl_members>>

detectorVars == <<rd_path, rd_leaf, rd_pos, rd_current, rd_set, rd_pc>>

globalsVars == <<gv_prog, gv_pos, gv_globals, gv_funcs>>

contextVars == <<cg_ctx, cg_frames, cg_last, cg_pc>>

selfStmtVars == <<ss_ops, ss_term, ss_min, ss_expr, ss_stmt>>

cursorVars == <<tc_tokens, tc_index, tc_out, tc_ended>>

vars == <<loaderVars, driverVars, genVars, entryVars, chanVars,
    scenVars,
    parseVars,
    streamVars,
    lexVars,
    posVars,
    matchVars,
    validatorVars,
    detectorVars,
    globalsVars,
    contextVars,
    selfStmtVars,
    cursorVars>>

notLoader == <<driverVars, genVars, entryVars, chanVars,
    scenVars,
    parseVars,
    streamVars,
    lexVars,
    posVars,
    matchVars,
    validatorVars,
    detectorVars,
    globalsVars,
    contextVars,
    selfStmtVars,
    cursorVars>>

notDriver == <<loaderVars, genVars, entryVars, chanVars,
    scenVars,
    parseVars,
    streamVars,
    lexVars,
    posVars,
    matchVars,
    validatorVars,
    detectorVars,
    globalsVars,
    contextVars,
    selfStmtVars,
    cursorVars>>

notGen == <<loaderVars, driverVars, entryVars, chanVars,
    scenVars,
    parseVars,
    streamVars,
    lexVars,
    posVars,
    matchVars,
    validatorVars,
    detectorVars,
    globalsVars,
    contextVars,
    selfStmtVars,
    cursorVars>>

notEntry == <<loaderVars, driverVars, genVars, chanVars,
    scenVars,
    parseVars,
    streamVars,
    lexVars,
    posVars,
    matchVars,
    validatorVars,
    detectorVars,
    globalsVars,
    contextVars,
    selfStmtVars,
    cursorVars>>

notChan == <<loaderVars, driverVars, genVars, entryVars,
    scenVars,
    parseVars,
    streamVars,
    lexVars,
    posVars,
    matchVars,
    validatorVars,
    detectorVars,
    globalsVars,
    contextVars,
    selfStmtVars,
    cursorVars>>

notScen == <<loaderVars, driverVars, genVars, entryVars, chanVars,
    parseVars,
    streamVars,
    lexVars,
    posVars,
    matchVars,
    validatorVars,
    detectorVars,
    globalsVars,
    contextVars,
    selfStmtVars,
    cursorVars>>

notParse == <<loaderVars, driverVars, genVars, entryVars, chanVars, scenVars,
    streamVars,
    lexVars,
    posVars,
    matchVars,
    validatorVars,
    detectorVars,
    globalsVars,
    contextVars,
    selfStmtVars,
    cursorVars>>

notStream == <<loaderVars, driverVars, genVars, entryVars, chanVars,
    scenVars, parseVars,
    lexVars,
    posVars,
    matchVars,
    validatorVars,
    detectorVars,
    globalsVars,
    contextVars,
    selfStmtVars,
    cursorVars>>

notLex == <<loaderVars, driverVars, genVars, entryVars, chanVars, scenVars,
    parseVars, streamVars,
    posVars,
    matchVars,
    validatorVars,
    detectorVars,
    globalsVars,
    contextVars,
    selfStmtVars,
    cursorVars>>

notPos == <<loaderVars, driverVars, genVars, entryVars, chanVars, scenVars,
    parseVars, streamVars, lexVars,
    matchVars,
    validatorVars,
    detectorVars,
    globalsVars,
    contextVars,
    selfStmtVars,
    cursorVars>>

notMatch == <<loaderVars, driverVars, genVars, entryVars, chanVars, scenVars,
    parseVars, streamVars, lexVars, posVars,
    validatorVars,
    detectorVars,
    globalsVars,
    contextVars,
    selfStmtVars,
    cursorVars>>

notValidator == <<loaderVars, driverVars, genVars, entryVars, chanVars,
    scenVars, parseVars, streamVars, lexVars, posVars, matchVars,
    detectorVars,
    globalsVars,
    contextVars,
    selfStmtVars,
    cursorVars>>

notDetector == <<loaderVars, driverVars, genVars, entryVars, chanVars,
    scenVars, parseVars, streamVars, lexVars, posVars, matchVars,
    validatorVars,
    globalsVars,
    contextVars,
    selfStmtVars,
    cursorVars>>

notGlobals == <<loaderVars, driverVars, genVars, entryVars, chanVars,
    scenVars, parseVars, streamVars, lexVars, posVars, matchVars,
    validatorVars, detectorVars,
    contextVars,
    selfStmtVars,
    cursorVars>>

notContext == <<loaderVars, driverVars, genVars, entryVars, chanVars,
    scenVars, parseVars, streamVars, lexVars, posVars, matchVars,
    validatorVars, detectorVars, globalsVars,
    selfStmtVars,
    cursorVars>>

notSelfStmt == <<loaderVars, driverVars, genVars, entryVars, chanVars,
    scenVars, parseVars, streamVars, lexVars, posVars, matchVars,
    validatorVars, detectorVars, globalsVars, contextVars,
    cursorVars>>

notCursor == <<loaderVars, driverVars, genVars, entryVars, chanVars,
    scenVars, parseVars, streamVars, lexVars, posVars, matchVars,
    validatorVars, detectorVars, globalsVars, contextVars, selfStmtVars>>

(***************************************************************************)
(* Paths and specifiers.  A path is the sequence of its components; a      *)
(* specifier is the import string split at "/" ("./b.sfn" is <<".",         *)
(* "b.sfn">>, "/proj/b.sfn" is <<"", "proj", "b.sfn">>).                   *)
(***************************************************************************)
NoFile == <<>>

base_path == <<"proj">>

FileA == <<"proj", "a.sfn">>

FileB == <<"proj", "b.sfn">>

DiskFiles == {FileA, FileB}

Aliases == {"m", "n"}

\* bound of the model: the import statements of one file
MaxImports == 1

\* Path.resolve(): "." and empty components dropped, ".." pops a component
RECURSIVE Normalize(_, _)
Normalize(acc, rest) ==
    IF rest = <<>> THEN acc
    ELSE LET h == Head(rest) IN
         IF h = "." \/ h = "" THEN Normalize(acc, Tail(rest))
         ELSE IF h = ".."
              THEN Normalize(IF acc = <<>> THEN acc
                             ELSE SubSeq(acc, 1, Len(acc) - 1), Tail(rest))
              ELSE Normalize(Append(acc, h), Tail(rest))

IsBuiltin(source) == Len(source) > 1 /\ source[1] = "sailfin"

StartsWithDot(source) == source # <<>> /\ source[1] \in {".", ".."}

IsAbsolute(source) == source # <<>> /\ source[1] = ""

\* pathlib's "/": an absolute right operand replaces the left one
JoinPath(dir, source) == IF IsAbsolute(source) THEN source ELSE dir \o source

resolve_module_path(source, current_file) ==
    LET current_dir == IF current_file # NoFile
                       THEN SubSeq(current_file, 1, Len(current_file) - 1)
                       ELSE base_path
        module_path == IF StartsWithDot(source)
                       THEN JoinPath(current_dir, source)
                       ELSE IF current_file # NoFile /\ ~IsAbsolute(source)
                            THEN JoinPath(current_dir, source)
                            ELSE JoinPath(base_path, source)
    IN  IF IsBuiltin(source) THEN source ELSE Normalize(<<>>, module_path)

Exists(path) == path \in DiskFiles

(***************************************************************************)
(* What a file on disk imports.                                            *)
(***************************************************************************)
ImportModule(source, alias) == [type |-> "ImportModuleStatement", source |-> source, alias |-> alias]

ImportItems(source) == [type |-> "ImportStatement", source |-> source, alias |-> "items"]

ImportStmts ==
    { ImportModule(<<".", "a.sfn">>, "m"),
      ImportModule(<<"b.sfn">>, "n"),
      ImportModule(<<"sailfin", "io">>, "io"),
      ImportItems(<<".", "b.sfn">>) }

RECURSIVE SeqsUpTo(_, _)
SeqsUpTo(S, n) ==
    IF n = 0 THEN {<<>>}
    ELSE LET shorter == SeqsUpTo(S, n - 1) IN
         shorter \cup {Append(s, x) : s \in {t \in shorter : Len(t) = n - 1}, x \in S}

\* the specifiers and current files a caller of load_sailfin_module passes
CallSources ==
    { <<".", "a.sfn">>, <<"b.sfn">>, <<"..", "proj", "b.sfn">>,
      <<"", "proj", "a.sfn">>, <<".", "x.sfn">> }

CallFiles == {NoFile, FileA}

(***************************************************************************)
(* Artifacts and the fragments load_sailfin_module returns.                *)
(***************************************************************************)
\* module_name = f"sailfin_module_{alias}_{abs(hash(module_key)) % 1000000}";
\* the hash is represented by the key it is computed from
ModuleName(alias, module_key) == [alias |-> alias, hashOf |-> module_key]

\* _create_temp_module: <tempdir>/<module_name>.py
TempFile(module_name) == [dir |-> "tmp", name |-> module_name]

Artifact(alias, module_key) ==
    [module_name |-> ModuleName(alias, module_key),
     temp_file |-> TempFile(ModuleName(alias, module_key))]

NoTemp == TempFile(ModuleName("", NoFile))

\* the Python source the generator produced for a module
PythonCode(module_key) == [py |-> module_key]

NoCode == PythonCode(NoFile)

\* "import sailfin.io as alias"
BuiltinFragment(source, alias) ==
    [kind |-> "import", alias |-> alias, embeds |-> NoCode, reads |-> NoTemp]

\* the base64 fragment: the compiled source travels inside the fragment
EmbeddedFragment(alias, python_code) ==
    [kind |-> "embed", alias |-> alias, embeds |-> python_code, reads |-> NoTemp]

\* "exec(compile(open(r'{temp_file}').read(), ...": reads the temp file at run time
CachedFragment(alias, artifact) ==
    [kind |-> "readfile", alias |-> alias, embeds |-> NoCode, reads |-> artifact.temp_file]

NoFragment == [kind |-> "none", alias |-> "", embeds |-> NoCode, reads |-> NoTemp]

NoRet == [outcome |-> "none", source |-> <<>>, alias |-> "", key |-> NoFile,
          fragment |-> NoFragment, error |-> "", depth |-> 0]

Returned(frame, fragment, depth) ==
    [outcome |-> "return", source |-> frame.source, alias |-> frame.alias,
     key |-> frame.key, fragment |-> fragment, error |-> "", depth |-> depth]

Raised(frame, error, depth) ==
    [outcome |-> "raise", source |-> frame.source, alias |-> frame.alias,
     key |-> frame.key, fragment |-> NoFragment, error |-> error, depth |-> depth]

(***************************************************************************)
(* load_sailfin_module, one frame per active call.                         *)
(***************************************************************************)
Frame(source, alias, current_file) ==
    [source |-> source, alias |-> alias, current_file |-> current_file,
     key |-> resolve_module_path(source, current_file), pc |-> "enter", idx |-> 1]

Top == stack[Len(stack)]

SetTop(f) == [stack EXCEPT ![Len(stack)] = f]

Pop == SubSeq(stack, 1, Len(stack) - 1)

\* the keys whose frames are inside the try block: their finally discards them
KeysInTry == {stack[i].key : i \in {j \in 1..Len(stack) : stack[j].pc # "enter"}}

\* the checks before the try block, in the order of the code
EntryDecisionNoCircularCheck(source, module_key, loaded, loading) ==
    IF IsBuiltin(source) THEN "builtin"
    ELSE IF ~Exists(module_key) THEN "notfound"
    ELSE IF module_key \in DOMAIN loaded THEN "cached"
    ELSE "compile"

EntryDecisionNoCacheCheck(source, module_key, loaded, loading) ==
    IF IsBuiltin(source) THEN "builtin"
    ELSE IF ~Exists(module_key) THEN "notfound"
    ELSE IF module_key \in loading THEN "circular"
    ELSE "compile"

EntryDecision(source, module_key, loaded, loading) ==
    IF IsBuiltin(source) THEN "builtin"
    ELSE IF ~Exists(module_key) THEN "notfound"
    ELSE IF module_key \in DOMAIN loaded THEN "cached"
    ELSE IF module_key \in loading THEN "circular"
    ELSE "compile"

\* the frames from the one that is loading `module_key` to the innermost one
CycleOf(module_key) ==
    LET first == CHOOSE i \in 1..Len(stack) :
                     stack[i].key = module_key /\ stack[i].pc # "enter"
    IN  {stack[i].key : i \in first..Len(stack)}

\* a call returns to its caller; its finally (if it entered the try) discards its key
ReturnFromTop(fragment) ==
    /\ stack' = Pop
    /\ ret' = Returned(Top, fragment, Len(stack))
    /\ loading_modules' = IF Top.pc = "enter" THEN loading_modules
                          ELSE loading_modules \ {Top.key}

\* load_sailfin_module without its finally clause
RaiseFromTopNoFinally(error) ==
    /\ stack' = <<>>
    /\ ret' = Raised(stack[1], error, Len(stack))
    /\ loading_modules' = loading_modules

\* an exception leaves every active call (no call catches it); each finally runs
RaiseFromTop(error) ==
    /\ stack' = <<>>
    /\ ret' = Raised(stack[1], error, Len(stack))
    /\ loading_modules' = loading_modules \ KeysInTry

\* a client (the code generator of the importing program) calls the loader
Call(source, alias, current_file) ==
    /\ stack = <<>>
    /\ stack' = <<Frame(source, alias, current_file)>>
    /\ ret' = NoRet
    /\ circularSeen' = FALSE
    /\ UNCHANGED <<disk, loaded_modules, loading_modules, temp_files,
                   compiles, firstArtifact, cycleMembers>>
    /\ UNCHANGED notLoader

\* lines 61-86: built-in, missing file, cache hit, circular import, or start
Enter ==
    /\ stack # <<>>
    /\ Top.pc = "enter"
    /\ LET d == EntryDecision(Top.source, Top.key, loaded_modules, loading_modules) IN
       /\ cycleMembers' = IF Top.key \in loading_modules
                          THEN cycleMembers \cup CycleOf(Top.key)
                          ELSE cycleMembers
       /\ circularSeen' = (circularSeen \/ Top.key \in loading_modules)
       /\ CASE d = "builtin" -> ReturnFromTop(BuiltinFragment(Top.source, Top.alias))
            [] d = "notfound" -> RaiseFromTop("ImportError")
            [] d = "cached" ->
                 ReturnFromTop(CachedFragment(Top.alias, loaded_modules[Top.key]))
            [] d = "circular" -> RaiseFromTop("ImportError")
            [] OTHER ->
                 /\ loading_modules' = loading_modules \cup {Top.key}
                 /\ stack' = SetTop([Top EXCEPT !.pc = "parse"])
                 /\ ret' = ret
    /\ UNCHANGED <<disk, loaded_modules, temp_files, compiles, firstArtifact>>
    /\ UNCHANGED notLoader

\* lines 88-101: read, parse (None gives ImportError), validate.  The call
\* passes tracking=True, a keyword of the legacy PLY parser: Parser.parse of
\* parser.py takes none and answers it with TypeError; a parser that takes the
\* keyword returns the AST or None, or raises ParseError.
ParseValidate(outcome) ==
    /\ stack # <<>>
    /\ Top.pc = "parse"
    /\ CASE outcome = "ok" ->
              /\ stack' = SetTop([Top EXCEPT !.pc = "imports"])
              /\ UNCHANGED <<ret, loading_modules>>
         [] outcome = "parse_keyword" -> RaiseFromTop("TypeError")
         [] outcome = "parse_none" -> RaiseFromTop("ImportError")
         [] outcome = "parse_error" -> RaiseFromTop("ParseError")
         [] OTHER -> RaiseFromTop("ValidationError")
    /\ UNCHANGED <<disk, loaded_modules, temp_files, compiles, firstArtifact,
                   cycleMembers, circularSeen>>
    /\ UNCHANGED notLoader

\* _process_module_imports: the next statement of the module being loaded
ProcessImport ==
    /\ stack # <<>>
    /\ Top.pc = "imports"
    /\ IF Top.idx > Len(disk[Top.key])
       THEN /\ stack' = SetTop([Top EXCEPT !.pc = "generate"])
            /\ UNCHANGED <<ret, loading_modules>>
       ELSE LET node == disk[Top.key][Top.idx] IN
            IF node.type = "ImportModuleStatement"
            THEN /\ stack' = Append(SetTop([Top EXCEPT !.idx = @ + 1]),
                                    Frame(node.source, node.alias, Top.key))
                 /\ UNCHANGED <<ret, loading_modules>>
            ELSE /\ stack' = SetTop([Top EXCEPT !.idx = @ + 1])
                 /\ UNCHANGED <<ret, loading_modules>>
    /\ UNCHANGED <<disk, loaded_modules, temp_files, compiles, firstArtifact,
                   cycleMembers, circularSeen>>
    /\ UNCHANGED notLoader

\* load_sailfin_module storing the cache entry before it generates
GenerateCachingFirst(outcome) ==
    /\ stack # <<>>
    /\ Top.pc = "generate"
    /\ LET artifact == Artifact(Top.alias, Top.key) IN
       /\ loaded_modules' =
              [k \in DOMAIN loaded_modules \cup {Top.key} |->
                  IF k = Top.key THEN artifact ELSE loaded_modules[k]]
       /\ IF outcome = "ok"
          THEN /\ temp_files' = temp_files \cup {artifact.temp_file}
               /\ compiles' = [compiles EXCEPT ![Top.key] = @ + 1]
               /\ firstArtifact' =
                      IF Top.key \in DOMAIN firstArtifact THEN firstArtifact
                      ELSE [k \in DOMAIN firstArtifact \cup {Top.key} |->
                               IF k = Top.key THEN artifact ELSE firstArtifact[k]]
               /\ ReturnFromTop(EmbeddedFragment(Top.alias, PythonCode(Top.key)))
          ELSE /\ RaiseFromTop("CodeGenerationError")
               /\ UNCHANGED <<temp_files, compiles, firstArtifact>>
    /\ UNCHANGED <<disk, cycleMembers, circularSeen>>
    /\ UNCHANGED notLoader

\* lines 106-141: generate, write the temp file, cache, return the fragment
Generate(outcome) ==
    /\ stack # <<>>
    /\ Top.pc = "generate"
    /\ IF outcome = "ok"
       THEN LET artifact == Artifact(Top.alias, Top.key) IN
            /\ temp_files' = temp_files \cup {artifact.temp_file}
            /\ loaded_modules' =
                   [k \in DOMAIN loaded_modules \cup {Top.key} |->
                       IF k = Top.key THEN artifact ELSE loaded_modules[k]]
            /\ compiles' = [compiles EXCEPT ![Top.key] = @ + 1]
            /\ firstArtifact' =
                   IF Top.key \in DOMAIN firstArtifact THEN firstArtifact
                   ELSE [k \in DOMAIN firstArtifact \cup {Top.key} |->
                            IF k = Top.key THEN artifact ELSE firstArtifact[k]]
            /\ ReturnFromTop(EmbeddedFragment(Top.alias, PythonCode(Top.key)))
       ELSE /\ RaiseFromTop("CodeGenerationError")
            /\ UNCHANGED <<loaded_modules, temp_files, compiles, firstArtifact>>
    /\ UNCHANGED <<disk, cycleMembers, circularSeen>>
    /\ UNCHANGED notLoader

\* cleanup(): the temp files are removed and forgotten
Cleanup ==
    /\ stack = <<>>
    /\ temp_files # {}
    /\ temp_files' = {}
    /\ UNCHANGED <<disk, loaded_modules, loading_modules, stack, ret,
                   compiles, firstArtifact, cycleMembers, circularSeen>>
    /\ UNCHANGED notLoader

LoaderInit ==
    /\ disk \in [DiskFiles -> SeqsUpTo(ImportStmts, MaxImports)]
    /\ loaded_modules = <<>>
    /\ loading_modules = {}
    /\ temp_files = {}
    /\ stack = <<>>
    /\ ret = NoRet
    /\ compiles = [f \in DiskFiles |-> 0]
    /\ firstArtifact = <<>>
    /\ cycleMembers = {}
    /\ circularSeen = FALSE

LoaderNext ==
    \/ \E source \in CallSources, alias \in Aliases, current_file \in CallFiles :
           Call(source, alias, current_file)
    \/ Enter
    \/ \E outcome \in {"ok", "parse_keyword", "parse_none", "parse_error",
                      "validation_error"} :
           ParseValidate(outcome)
    \/ ProcessImport
    \/ \E outcome \in {"ok", "raise"} : Generate(outcome)
    \/ Cleanup

(***************************************************************************)
(* Properties of the module loader.                                          *)
(***************************************************************************)
IsLocalReturn == ret.outcome = "return" /\ ret.fragment.kind # "import"

\* C1: a load whose chain of imports reaches a path that is still in the
\* loading set fails with ImportError, and no module of the cycle is put in
\* loaded_modules, compiled to an artifact or returned as a fragment.
C1_CircularImportRejected ==
    /\ circularSeen => (stack = <<>> /\ ret.outcome = "raise" /\ ret.error = "ImportError")
    /\ cycleMembers \cap DOMAIN loaded_modules = {}
    /\ \A k \in cycleMembers : compiles[k] = 0
    /\ IsLocalReturn => ret.key \notin cycleMembers

\* a.sfn imports b.sfn, b.sfn imports a.sfn, and the load of one of them failed
C1_Witness ==
    /\ circularSeen
    /\ cycleMembers = {FileA, FileB}
    /\ ret.outcome = "raise"
    /\ ret.depth = 3

\* C2: within one session a path is compiled at most once, its cache entry
\* stays the artifact of that first compilation, and a later load (under any
\* spelling or alias) returns that artifact.
C2_ModuleIdempotence ==
    /\ \A k \in DiskFiles : compiles[k] <= 1
    /\ DOMAIN loaded_modules = DOMAIN firstArtifact
    /\ \A k \in DOMAIN loaded_modules : loaded_modules[k] = firstArtifact[k]
    /\ (ret.outcome = "return" /\ ret.fragment.kind = "readfile")
           => /\ ret.key \in DOMAIN firstArtifact
              /\ ret.fragment.reads = firstArtifact[ret.key].temp_file

\* b.sfn, first loaded under another alias, is loaded again as "../proj/b.sfn"
C2_Witness ==
    /\ ret.outcome = "return"
    /\ ret.fragment.kind = "readfile"
    /\ ret.source = <<"..", "proj", "b.sfn">>
    /\ ret.key = FileB
    /\ ret.alias # firstArtifact[FileB].module_name.alias

\* C3: every fragment returned for a local module embeds the compiled source
\* of that module and reads no temp file.
C3_FragmentEmbedsSource ==
    IsLocalReturn =>
        /\ ret.fragment.kind = "embed"
        /\ ret.fragment.embeds = PythonCode(ret.key)
        /\ ret.fragment.reads = NoTemp

(***************************************************************************)
(* compile_and_run (bootstrap/bootstrap.py).                               *)
(***************************************************************************)
StageOrder == <<"parse", "validate", "generate", "write", "execute">>

\* the exception classes the three except clauses tell apart
ExceptionClasses == {"CompilerError", "FileNotFoundError", "Exception"}

\* the except clauses of compile_and_run: each logs and calls sys.exit(1)
ExitCodeSwallowsException(exception) == IF exception = "Exception" THEN 0 ELSE 1

ExitCode(exception) ==
    CASE exception = "CompilerError" -> 1
      [] exception = "FileNotFoundError" -> 1
      [] OTHER -> 1

\* the statement order of the try block
StageAfterWriteFirst(stage, run_output) ==
    CASE stage = "parse" -> "write"
      [] stage = "write" -> "validate"
      [] stage = "validate" -> "generate"
      [] stage = "generate" -> IF run_output THEN "execute" ELSE "exited"
      [] OTHER -> "exited"

StageAfter(stage, run_output) ==
    CASE stage = "parse" -> "validate"
      [] stage = "validate" -> "generate"
      [] stage = "generate" -> "write"
      [] stage = "write" -> IF run_output THEN "execute" ELSE "exited"
      [] OTHER -> "exited"

\* a stage raised: the matching except clause ends the process
DrvRaise(stage, exception) ==
    /\ drv_failed' = stage
    /\ drv_exc' = exception
    /\ drv_exit' = ExitCode(exception)
    /\ drv_pc' = "exited"

\* a stage returned: on to the next one, or the function returns (exit code 0)
DrvAdvance(stage) ==
    /\ UNCHANGED <<drv_failed, drv_exc>>
    /\ drv_pc' = StageAfter(stage, drv_run_output)
    /\ drv_exit' = IF StageAfter(stage, drv_run_output) = "exited" THEN 0 ELSE drv_exit

\* lines 76-86: the source file is looked up (sys.exit(1) if missing) and read
DrvRead(outcome) ==
    /\ drv_pc = "start"
    /\ CASE outcome = "ok" ->
              /\ drv_pc' = IF drv_verbose THEN "inspect" ELSE "parse"
              /\ UNCHANGED <<drv_failed, drv_exc, drv_exit>>
         [] outcome = "missing" ->
              /\ drv_failed' = "read"
              /\ drv_exc' = "SystemExit"
              /\ drv_exit' = 1
              /\ drv_pc' = "exited"
         [] OTHER -> DrvRaise("read", outcome)
    /\ UNCHANGED <<drv_verbose, drv_run_output, drv_output0, drv_output,
                   drv_executed, drv_ran>>
    /\ UNCHANGED notDriver

\* lines 88-92: verbose only, inspect_tokens runs the lexer over the source
DrvInspect(outcome) ==
    /\ drv_pc = "inspect"
    /\ IF outcome = "ok"
       THEN /\ drv_pc' = "parse"
            /\ UNCHANGED <<drv_failed, drv_exc, drv_exit>>
       ELSE DrvRaise("read", outcome)
    /\ UNCHANGED <<drv_verbose, drv_run_output, drv_output0, drv_output,
                   drv_executed, drv_ran>>
    /\ UNCHANGED notDriver

\* lines 98-103, 111-112, 122-126: parser.parse, validator.validate,
\* generator.visit; each returns or raises (the TypeError Parser.parse answers
\* the tracking and debug keywords with is an "Exception")
DrvCompileStage(stage, outcome) ==
    /\ drv_pc = stage
    /\ stage \in {"parse", "validate", "generate"}
    /\ drv_ran' = Append(drv_ran, stage)
    /\ IF outcome = "ok" THEN DrvAdvance(stage) ELSE DrvRaise(stage, outcome)
    /\ UNCHANGED <<drv_verbose, drv_run_output, drv_output0, drv_output, drv_executed>>
    /\ UNCHANGED notDriver

\* lines 136-137: open(output_file, "w") truncates, f.write fills
DrvWrite(outcome) ==
    /\ drv_pc = "write"
    /\ drv_ran' = Append(drv_ran, "write")
    /\ CASE outcome = "ok" ->
              /\ drv_output' = "new"
              /\ DrvAdvance("write")
         [] outcome = "open_fails" ->
              /\ drv_output' = drv_output
              /\ DrvRaise("write", "FileNotFoundError")
         [] OTHER ->
              /\ drv_output' = "truncated"
              /\ DrvRaise("write", "Exception")
    /\ UNCHANGED <<drv_verbose, drv_run_output, drv_output0, drv_executed>>
    /\ UNCHANGED notDriver

\* lines 139-149: exec(target_code, namespace)
DrvExecute(outcome) ==
    /\ drv_pc = "execute"
    /\ drv_ran' = Append(drv_ran, "execute")
    /\ drv_executed' = TRUE
    /\ IF outcome = "ok" THEN DrvAdvance("execute") ELSE DrvRaise("execute", outcome)
    /\ UNCHANGED <<drv_verbose, drv_run_output, drv_output0, drv_output>>
    /\ UNCHANGED notDriver

DriverInit ==
    /\ drv_pc = "start"
    /\ drv_verbose \in BOOLEAN
    /\ drv_run_output \in BOOLEAN
    /\ drv_output0 \in {"absent", "old"}
    /\ drv_output = drv_output0
    /\ drv_executed = FALSE
    /\ drv_exit = -1
    /\ drv_ran = <<>>
    /\ drv_failed = "none"
    /\ drv_exc = "none"

DriverIdle ==
    /\ drv_pc = "exited"
    /\ drv_verbose = FALSE
    /\ drv_run_output = FALSE
    /\ drv_output0 = "absent"
    /\ drv_output = "absent"
    /\ drv_executed = FALSE
    /\ drv_exit = 0
    /\ drv_ran = <<>>
    /\ drv_failed = "none"
    /\ drv_exc = "none"

DriverNext ==
    \/ \E outcome \in {"ok", "missing", "FileNotFoundError", "Exception"} :
           DrvRead(outcome)
    \/ \E outcome \in {"ok", "CompilerError"} : DrvInspect(outcome)
    \/ \E stage \in {"parse", "validate", "generate"},
          outcome \in {"ok"} \cup ExceptionClasses : DrvCompileStage(stage, outcome)
    \/ \E outcome \in {"ok", "open_fails", "write_fails"} : DrvWrite(outcome)
    \/ \E outcome \in {"ok", "Exception"} : DrvExecute(outcome)

LoaderIdle ==
    /\ disk = [f \in DiskFiles |-> <<>>]
    /\ loaded_modules = <<>>
    /\ loading_modules = {}
    /\ temp_files = {}
    /\ stack = <<>>
    /\ ret = NoRet
    /\ compiles = [f \in DiskFiles |-> 0]
    /\ firstArtifact = <<>>
    /\ cycleMembers = {}
    /\ circularSeen = FALSE

(***************************************************************************)
(* Properties of the driver.                                                  *)
(***************************************************************************)
IsPrefix(s, t) == Len(s) <= Len(t) /\ s = SubSeq(t, 1, Len(s))

\* C4: the stages run in the order parse, validate, generate, write, execute;
\* when a stage fails no later stage runs (the output file is untouched if the
\* failure comes before the write, nothing is executed if it comes before the
\* execution) and the exit code is 1.
C4_StagesFailFast ==
    /\ IsPrefix(drv_ran, StageOrder)
    /\ drv_failed # "none" =>
           /\ drv_pc = "exited"
           /\ drv_exit = 1
           /\ drv_failed = "read" => drv_ran = <<>>
           /\ drv_failed # "read" => drv_ran[Len(drv_ran)] = drv_failed
           /\ drv_failed \in {"read", "parse", "validate", "generate"}
                  => drv_output = drv_output0
           /\ drv_failed # "execute" => ~drv_executed
    /\ drv_output # drv_output0 => "write" \in {drv_ran[i] : i \in 1..Len(drv_ran)}
    /\ drv_executed => drv_output = "new"
    /\ drv_exit = 0 =>
           /\ drv_failed = "none"
           /\ drv_output = "new"
           /\ drv_executed = drv_run_output

\* validation failed after a successful parse: exit code 1, nothing written
C4_Witness ==
    /\ drv_failed = "validate"
    /\ drv_ran = <<"parse", "validate">>
    /\ drv_exit = 1
    /\ drv_output0 = "old"
    /\ drv_output = "old"

(***************************************************************************)
(* The code generator (bootstrap/code_generator.py): the names it makes up *)
(* and the entry point visit_Program emits.                                *)
(***************************************************************************)
\* bounds of the model
MaxStmts == 2

MaxTests == 2

MaxRoutines == 2

Generators == {1, 2}

\* the values uuid.uuid4().hex can take: a fresh random draw on every call
UuidHex == {"3f2a", "9c41"}

\* generate_unique_name: f"{prefix}_{uuid.uuid4().hex}"
generate_unique_name(prefix, hex) == <<prefix, hex>>

\* the kinds of top-level statement and the prefix of the name each one makes up
NamePrefix ==
    [ FunctionDeclaration |-> "",
      AsyncFunctionDeclaration |-> "",
      TestDeclaration |-> "test",
      Routine |-> "routine",
      AsyncBlock |-> "async_block",
      LambdaExpression |-> "lambda_func",
      ParallelExpression |-> "parallel_wrapper" ]

StmtKinds == DOMAIN NamePrefix

\* the imports a statement adds to self.imports
ImportsOf(kind) ==
    IF kind \in {"Routine", "AsyncBlock", "ParallelExpression"}
    THEN {"import asyncio"} ELSE {}

\* the name the entry point calls main by
MainName == <<"main", "">>

\* the name of the function a statement is emitted as
EmittedName(kind, hex) ==
    CASE kind \in {"FunctionDeclaration", "AsyncFunctionDeclaration"} -> MainName
      [] kind = "TestDeclaration" -> generate_unique_name("test_test", hex)
      [] OTHER -> generate_unique_name(NamePrefix[kind], hex)

\* the "if __name__ == '__main__':" block of visit_Program, one record per
\* emitted statement; main_async is "is_async or 'main' in functions_with_routines"
EntryPoint(test_functions, has_main, main_async, top_level_routines) ==
    LET tests == [i \in 1..Len(test_functions) |->
                     [op |-> "try_test", calls |-> <<test_functions[i]>>]]
        has_routines == Len(top_level_routines) > 0
    IN  tests \o
        (IF has_main
         THEN IF main_async
              THEN IF has_routines
                   THEN <<[op |-> "asyncio_run_gather",
                           calls |-> top_level_routines \o <<MainName>>]>>
                   ELSE <<[op |-> "asyncio_run", calls |-> <<MainName>>]>>
              ELSE <<[op |-> "call", calls |-> <<MainName>>]>>
         ELSE IF has_routines
              THEN <<[op |-> "asyncio_run_gather", calls |-> top_level_routines]>>
              ELSE <<>>)

\* lines 124-130: the first top-level function named main
MainDeclarations == {"FunctionDeclaration", "AsyncFunctionDeclaration"}

HasMain(ast) == \E i \in 1..Len(ast) : ast[i] \in MainDeclarations

MainIsAsync(ast) ==
    /\ HasMain(ast)
    /\ LET first == CHOOSE i \in 1..Len(ast) :
                        /\ ast[i] \in MainDeclarations
                        /\ \A j \in 1..(i - 1) : ast[j] \notin MainDeclarations
       IN  ast[first] = "AsyncFunctionDeclaration"

\* visit_Program's loop: generator g visits its next top-level statement
GenVisit(g, hex) ==
    /\ gen_pos[g] <= Len(gen_ast)
    /\ LET kind == gen_ast[gen_pos[g]]
           name == EmittedName(kind, hex)
       IN  /\ gen_code' = [gen_code EXCEPT ![g] = Append(@, [def |-> name])]
           /\ gen_imports' = [gen_imports EXCEPT ![g] = @ \cup ImportsOf(kind)]
           /\ gen_tests' = [gen_tests EXCEPT ![g] =
                               IF kind = "TestDeclaration" THEN Append(@, name) ELSE @]
           /\ gen_routines' = [gen_routines EXCEPT ![g] =
                               IF kind = "Routine" THEN Append(@, name) ELSE @]
    /\ gen_pos' = [gen_pos EXCEPT ![g] = @ + 1]
    /\ UNCHANGED <<gen_ast, gen_out>>
    /\ UNCHANGED notGen

\* lines 123-209: the entry point is appended, the sorted imports are prepended
GenAssemble(g) ==
    /\ gen_pos[g] = Len(gen_ast) + 1
    /\ gen_out[g] = <<>>
    /\ gen_out' = [gen_out EXCEPT ![g] =
           <<[imports |-> gen_imports[g],
              code |-> gen_code[g],
              entry |-> EntryPoint(gen_tests[g], HasMain(gen_ast),
                                   MainIsAsync(gen_ast), gen_routines[g])]>>]
    /\ UNCHANGED <<gen_ast, gen_pos, gen_code, gen_imports, gen_tests, gen_routines>>
    /\ UNCHANGED notGen

GenInit ==
    /\ gen_ast \in SeqsUpTo(StmtKinds, MaxStmts)
    /\ gen_pos = [g \in Generators |-> 1]
    /\ gen_code = [g \in Generators |-> <<>>]
    /\ gen_imports = [g \in Generators |-> {}]
    /\ gen_tests = [g \in Generators |-> <<>>]
    /\ gen_routines = [g \in Generators |-> <<>>]
    /\ gen_out = [g \in Generators |-> <<>>]

GenIdle ==
    /\ gen_ast = <<>>
    /\ gen_pos = [g \in Generators |-> 1]
    /\ gen_code = [g \in Generators |-> <<>>]
    /\ gen_imports = [g \in Generators |-> {}]
    /\ gen_tests = [g \in Generators |-> <<>>]
    /\ gen_routines = [g \in Generators |-> <<>>]
    /\ gen_out = [g \in Generators |-> <<>>]

GenNext ==
    \/ \E g \in Generators, hex \in UuidHex : GenVisit(g, hex)
    \/ \E g \in Generators : GenAssemble(g)

\* C5: two generators given the same AST return byte-identical target source,
\* made-up names included.
C5_EmitDeterministic ==
    (gen_out[1] # <<>> /\ gen_out[2] # <<>>) => gen_out[1] = gen_out[2]

(***************************************************************************)
(* The emitted entry point, executed by the host interpreter.              *)
(***************************************************************************)
TestName(i) == <<"test", "t", i>>

RoutineName(i) == <<"routine", "r", i>>

\* the entry point visit_Program emits for the program
EntryOf(program) ==
    EntryPoint([i \in 1..program.tests |-> TestName(i)],
               program.main # "none",
               program.main = "async" \/ program.main_routine,
               [i \in 1..program.routines |-> RoutineName(i)])

Plan == EntryOf(ep_program)

AtEnd == ep_pc = Len(Plan) + 1

Calls == IF AtEnd THEN <<>> ELSE Plan[ep_pc].calls

IsCalled(name) == \E i \in 1..Len(Calls) : Calls[i] = name

RoutinesNotDone == {i \in 1..ep_program.routines : ep_routine[i] # "done"}

\* try: test(); print passed / except AssertionError / except Exception
EpRunTest(outcome) ==
    /\ ~AtEnd
    /\ Plan[ep_pc].op = "try_test"
    /\ ep_results' = Append(ep_results, outcome)
    /\ ep_pc' = ep_pc + 1
    /\ UNCHANGED <<ep_program, ep_routine, ep_main, ep_loop, ep_exit, ep_early>>
    /\ UNCHANGED notEntry

\* asyncio.run(...): the event loop starts
EpLoopStart ==
    /\ ~AtEnd
    /\ Plan[ep_pc].op \in {"asyncio_run", "asyncio_run_gather"}
    /\ ~ep_loop
    /\ ep_loop' = TRUE
    /\ UNCHANGED <<ep_program, ep_pc, ep_results, ep_routine, ep_main, ep_exit, ep_early>>
    /\ UNCHANGED notEntry

\* a top-level routine handed to asyncio.gather starts, then finishes
EpRoutineStep(i) ==
    /\ i \in DOMAIN ep_routine
    /\ ep_loop
    /\ IsCalled(RoutineName(i))
    /\ ep_routine[i] # "done"
    /\ ep_routine' = [ep_routine EXCEPT ![i] = IF @ = "unrun" THEN "running" ELSE "done"]
    /\ UNCHANGED <<ep_program, ep_pc, ep_results, ep_main, ep_loop, ep_exit, ep_early>>
    /\ UNCHANGED notEntry

\* main starts: called directly, or as a coroutine of the event loop
EpMainStart ==
    /\ ~AtEnd
    /\ IsCalled(MainName)
    /\ Plan[ep_pc].op = "call" \/ ep_loop
    /\ ep_main = "uncalled"
    /\ ep_main' = "running"
    /\ ep_early' = (ep_early \/ RoutinesNotDone # {})
    /\ UNCHANGED <<ep_program, ep_pc, ep_results, ep_routine, ep_loop, ep_exit>>
    /\ UNCHANGED notEntry

\* main returns; a direct call then falls through to the end of the block
EpMainEnd ==
    /\ ep_main = "running"
    /\ ep_main' = "done"
    /\ ep_pc' = IF Plan[ep_pc].op = "call" THEN ep_pc + 1 ELSE ep_pc
    /\ UNCHANGED <<ep_program, ep_results, ep_routine, ep_loop, ep_exit, ep_early>>
    /\ UNCHANGED notEntry

\* asyncio.run returns once everything it was given has finished
EpLoopEnd ==
    /\ ~AtEnd
    /\ ep_loop
    /\ Plan[ep_pc].op \in {"asyncio_run", "asyncio_run_gather"}
    /\ IsCalled(MainName) => ep_main = "done"
    /\ \A i \in 1..ep_program.routines : IsCalled(RoutineName(i)) => ep_routine[i] = "done"
    /\ ep_pc' = ep_pc + 1
    /\ UNCHANGED <<ep_program, ep_results, ep_routine, ep_main, ep_loop, ep_exit, ep_early>>
    /\ UNCHANGED notEntry

\* the end of the block: nothing sets an exit status, the interpreter exits 0
EpExit ==
    /\ AtEnd
    /\ ep_exit = -1
    /\ ep_exit' = 0
    /\ UNCHANGED <<ep_program, ep_pc, ep_results, ep_routine, ep_main, ep_loop, ep_early>>
    /\ UNCHANGED notEntry

Programs ==
    { p \in [tests : 0..MaxTests, main : {"none", "sync", "async"},
             main_routine : BOOLEAN, routines : 0..MaxRoutines] :
        p.main = "none" => ~p.main_routine }

EntryInit ==
    /\ ep_program \in Programs
    /\ ep_pc = 1
    /\ ep_results = <<>>
    /\ ep_routine = [i \in 1..ep_program.routines |-> "unrun"]
    /\ ep_main = "uncalled"
    /\ ep_loop = FALSE
    /\ ep_exit = -1
    /\ ep_early = FALSE

EntryIdle ==
    /\ ep_program = [tests |-> 0, main |-> "none", main_routine |-> FALSE, routines |-> 0]
    /\ ep_pc = 1
    /\ ep_results = <<>>
    /\ ep_routine = <<>>
    /\ ep_main = "uncalled"
    /\ ep_loop = FALSE
    /\ ep_exit = 0
    /\ ep_early = FALSE

EntryNext ==
    \/ \E outcome \in {"pass", "AssertionError", "Exception"} : EpRunTest(outcome)
    \/ EpLoopStart
    \/ \E i \in 1..MaxRoutines : EpRoutineStep(i)
    \/ EpMainStart
    \/ EpMainEnd
    \/ EpLoopEnd
    \/ EpExit

\* C6: a program with an async main or a top-level routine gets an entry point
\* that drives an event loop in which every top-level routine is run.
C6_LoopRunsEveryRoutine ==
    (ep_exit = 0 /\ (ep_program.main = "async" \/ ep_program.routines > 0))
        => /\ ep_loop
           /\ RoutinesNotDone = {}

\* C7: with a sync main and top-level routines, every routine is run and main
\* is called only after all of them have completed.
C7_SyncMainAfterRoutines ==
    (ep_program.main = "sync" /\ ep_program.routines > 0)
        => /\ ep_main # "uncalled" => RoutinesNotDone = {}
           /\ ~ep_early
           /\ ep_exit = 0 => (ep_main = "done" /\ RoutinesNotDone = {})

TestsOnly(program) == program.tests > 0 /\ program.main = "none" /\ program.routines = 0

\* C8: with only test declarations every test is run, a failed one not
\* stopping the later ones, and the exit status is 0 iff all tests passed.
C8_TestsDecideExitStatus ==
    (TestsOnly(ep_program) /\ ep_exit # -1)
        => /\ Len(ep_results) = ep_program.tests
           /\ ep_exit = 0 <=> \A i \in 1..Len(ep_results) : ep_results[i] = "pass"

(***************************************************************************)
(* A channel of the generated program: the constructor and the send and    *)
(* receive calls as visit_FunctionCall lowers them, on the host's           *)
(* asyncio.Queue (or on runtime_support.Channel, which wraps one).          *)
(***************************************************************************)
\* bounds of the model
MaxCap == 2

MaxSends == 2

Senders == {"s1", "s2"}

Receivers == {"r1", "r2"}

\* the shapes of constructor call visit_FunctionCall tells apart, and the
\* helper class of the runtime
ChannelForms == {"TypeApplication", "BinOp", "Identifier", "runtime"}

\* the maxsize of the queue the constructor call is lowered to
QueueMaxsize(form, n) ==
    CASE form = "BinOp" -> n            \* asyncio.Queue({first_arg})
      [] form = "Identifier" -> 0       \* "asyncio.Queue()": the arguments are dropped
      [] form = "TypeApplication" -> n  \* asyncio.Queue({args})
      [] OTHER -> n                     \* Channel.__init__: maxsize = capacity

\* what ch.send(v) is lowered to: put_nowait only for channel-like names
SendLowering(form, hint) ==
    IF form = "runtime" \/ hint THEN "put_nowait" ELSE "send"

\* asyncio.Queue.full(): a maxsize of 0 or less never fills
QueueFull(queue, maxsize) == maxsize > 0 /\ Len(queue) >= maxsize

\* asyncio.Queue._get: the oldest item leaves
QueueGetNewest(queue) ==
    [item |-> queue[Len(queue)], rest |-> SubSeq(queue, 1, Len(queue) - 1)]

QueueGet(queue) == [item |-> Head(queue), rest |-> Tail(queue)]

\* asyncio.Queue._put: the item joins at the end
QueuePut(queue, item) == Append(queue, item)

Maxsize == QueueMaxsize(ch_form, ch_n)

\* sender s runs "ch.send(v)" with its next value
ChSend(s) ==
    /\ ch_left[s] > 0
    /\ ch_left' = [ch_left EXCEPT ![s] = @ - 1]
    /\ LET value == <<s, MaxSends - ch_left[s] + 1>>
           before == Len(ch_queue)
       IN  IF SendLowering(ch_form, ch_hint) = "send"
           THEN /\ ch_last' = [result |-> "AttributeError", before |-> before]
                /\ UNCHANGED <<ch_queue, ch_getters, ch_recv, ch_sent>>
           ELSE IF QueueFull(ch_queue, Maxsize)
                THEN /\ ch_last' = [result |-> "QueueFull", before |-> before]
                     /\ UNCHANGED <<ch_queue, ch_getters, ch_recv, ch_sent>>
                ELSE /\ ch_last' = [result |-> "enqueued", before |-> before]
                     /\ ch_queue' = QueuePut(ch_queue, value)
                     /\ ch_sent' = Append(ch_sent, value)
                     \* _wakeup_next(self._getters)
                     /\ IF ch_getters = <<>>
                        THEN UNCHANGED <<ch_getters, ch_recv>>
                        ELSE /\ ch_getters' = Tail(ch_getters)
                             /\ ch_recv' = [ch_recv EXCEPT ![Head(ch_getters)] = "woken"]
    /\ UNCHANGED <<ch_form, ch_n, ch_hint, ch_received>>
    /\ UNCHANGED notChan

\* receiver r runs (or resumes) "await ch.receive()": asyncio.Queue.get
ChReceive(r) ==
    /\ ch_recv[r] \in {"idle", "woken"}
    /\ IF ch_queue = <<>>
       THEN /\ ch_getters' = Append(ch_getters, r)
            /\ ch_recv' = [ch_recv EXCEPT ![r] = "waiting"]
            /\ UNCHANGED <<ch_queue, ch_received>>
       ELSE /\ ch_queue' = QueueGet(ch_queue).rest
            /\ ch_received' = Append(ch_received, QueueGet(ch_queue).item)
            /\ ch_recv' = [ch_recv EXCEPT ![r] = "idle"]
            /\ UNCHANGED ch_getters
    /\ UNCHANGED <<ch_form, ch_n, ch_hint, ch_left, ch_sent, ch_last>>
    /\ UNCHANGED notChan

ChanInit ==
    /\ ch_form \in ChannelForms
    /\ ch_n \in 1..MaxCap
    /\ ch_hint \in BOOLEAN
    /\ ch_form = "runtime" => ch_hint
    /\ ch_queue = <<>>
    /\ ch_getters = <<>>
    /\ ch_recv = [r \in Receivers |-> "idle"]
    /\ ch_left = [s \in Senders |-> MaxSends]
    /\ ch_sent = <<>>
    /\ ch_received = <<>>
    /\ ch_last = [result |-> "none", before |-> 0]

ChanIdle ==
    /\ ch_form = "runtime"
    /\ ch_n = 1
    /\ ch_hint = TRUE
    /\ ch_queue = <<>>
    /\ ch_getters = <<>>
    /\ ch_recv = [r \in Receivers |-> "idle"]
    /\ ch_left = [s \in Senders |-> 0]
    /\ ch_sent = <<>>
    /\ ch_received = <<>>
    /\ ch_last = [result |-> "none", before |-> 0]

ChanNext ==
    \/ \E s \in Senders : ChSend(s)
    \/ \E r \in Receivers : ChReceive(r)

\* C9: the values leave a channel in the order they entered it, each exactly
\* once: what was received, followed by what is queued, is what was sent.
C9_ChannelFifo ==
    /\ ch_sent = ch_received \o ch_queue
    /\ \A i, j \in 1..Len(ch_sent) : ch_sent[i] = ch_sent[j] => i = j

\* both senders' values were received, after a receiver had to wait
C9_Witness ==
    /\ Len(ch_received) >= 3
    /\ \E i, j \in 1..Len(ch_received) :
           /\ i < j
           /\ ch_received[i][1] = "s2"
           /\ ch_received[j][1] = "s1"
    /\ ch_getters # <<>>

\* C10: a channel constructed with capacity n holds at most n undelivered
\* values, and a send made while fewer than n are queued enqueues its value.
C10_CapacityRespected ==
    /\ Len(ch_queue) <= ch_n
    /\ (ch_last.result # "none" /\ ch_last.before < ch_n) => ch_last.result = "enqueued"

(***************************************************************************)
(* The channel scenario: a sender routine sends 1..sc_n into a channel, a  *)
(* receiver loop receives and prints.  Both are tasks of one asyncio event *)
(* loop: a task runs until it awaits something that is not ready.          *)
(***************************************************************************)
\* bounds of the model
MaxScCap == 2

MaxScSends == 3

\* the constructor forms of "Channel<number>(n)": parsed as a type application
\* or as the comparison chain visit_FunctionCall repairs
ScenarioForms == {"TypeApplication", "BinOp"}

ScMaxsize == QueueMaxsize(sc_form, sc_cap)

\* the event loop picks the next ready task
ScSchedule ==
    /\ sc_end = "running"
    /\ sc_cur = "none"
    /\ sc_ready # <<>>
    /\ sc_cur' = Head(sc_ready)
    /\ sc_ready' = Tail(sc_ready)
    /\ UNCHANGED <<sc_form, sc_cap, sc_n, sc_yield, sc_next, sc_sender, sc_receiver,
                   sc_queue, sc_printed, sc_error, sc_end>>
    /\ UNCHANGED notScen

\* the sender runs "ch.send(v)", lowered to ch.put_nowait(v): it raises
\* QueueFull on a full queue and never suspends
ScSend ==
    /\ sc_cur = "sender"
    /\ IF QueueFull(sc_queue, ScMaxsize)
       THEN /\ sc_error' = "QueueFull"
            /\ sc_sender' = "failed"
            /\ sc_cur' = "none"
            /\ UNCHANGED <<sc_queue, sc_next, sc_receiver, sc_ready>>
       ELSE LET woken == IF sc_receiver = "waiting" THEN <<"receiver">> ELSE <<>>
                last == sc_next = sc_n
            IN  /\ sc_queue' = QueuePut(sc_queue, sc_next)
                /\ sc_next' = sc_next + 1
                /\ sc_receiver' = IF sc_receiver = "waiting" THEN "ready" ELSE sc_receiver
                /\ sc_sender' = IF last THEN "done" ELSE "ready"
                /\ sc_cur' = IF last \/ sc_yield THEN "none" ELSE "sender"
                /\ sc_ready' = sc_ready \o woken \o
                                  (IF ~last /\ sc_yield THEN <<"sender">> ELSE <<>>)
                /\ UNCHANGED sc_error
    /\ UNCHANGED <<sc_form, sc_cap, sc_n, sc_yield, sc_printed, sc_end>>
    /\ UNCHANGED notScen

\* the receiver runs "print(await ch.receive())", lowered to ch.get(): it
\* suspends on an empty queue, else takes the oldest value and goes on
ScReceive ==
    /\ sc_cur = "receiver"
    /\ IF sc_queue = <<>>
       THEN /\ sc_receiver' = "waiting"
            /\ sc_cur' = "none"
            /\ UNCHANGED <<sc_queue, sc_printed>>
       ELSE /\ sc_queue' = QueueGet(sc_queue).rest
            /\ sc_printed' = Append(sc_printed, QueueGet(sc_queue).item)
            /\ UNCHANGED <<sc_receiver, sc_cur>>
    /\ UNCHANGED <<sc_form, sc_cap, sc_n, sc_yield, sc_ready, sc_next, sc_sender,
                   sc_error, sc_end>>
    /\ UNCHANGED notScen

\* nothing is ready: asyncio.gather hands on the sender's exception, or the
\* receiver waits for ever (Channel.close is "pass")
ScEnd ==
    /\ sc_end = "running"
    /\ sc_cur = "none"
    /\ sc_ready = <<>>
    /\ sc_end' = IF sc_sender = "failed" THEN "crashed" ELSE "blocked"
    /\ UNCHANGED <<sc_form, sc_cap, sc_n, sc_yield, sc_ready, sc_cur, sc_next,
                   sc_sender, sc_receiver, sc_queue, sc_printed, sc_error>>
    /\ UNCHANGED notScen

ScenInit ==
    /\ sc_form \in ScenarioForms
    /\ sc_cap \in 1..MaxScCap
    /\ sc_n \in 1..MaxScSends
    /\ sc_yield \in BOOLEAN
    /\ sc_ready \in {<<"sender", "receiver">>, <<"receiver", "sender">>}
    /\ sc_cur = "none"
    /\ sc_next = 1
    /\ sc_sender = "ready"
    /\ sc_receiver = "ready"
    /\ sc_queue = <<>>
    /\ sc_printed = <<>>
    /\ sc_error = "none"
    /\ sc_end = "running"

ScenIdle ==
    /\ sc_form = "TypeApplication"
    /\ sc_cap = 1
    /\ sc_n = 1
    /\ sc_yield = FALSE
    /\ sc_ready = <<>>
    /\ sc_cur = "none"
    /\ sc_next = 1
    /\ sc_sender = "done"
    /\ sc_receiver = "waiting"
    /\ sc_queue = <<>>
    /\ sc_printed = <<>>
    /\ sc_error = "none"
    /\ sc_end = "blocked"

ScenNext ==
    \/ ScSchedule
    \/ ScSend
    \/ ScReceive
    \/ ScEnd

\* C11: with capacity 2 and the values 1, 2, 3 no send fails and every
\* execution prints exactly 1, 2, 3 in that order.
C11_ScenarioPrints123 ==
    (sc_cap = 2 /\ sc_n = 3)
        => /\ sc_error = "none"
           /\ IsPrefix(sc_printed, <<1, 2, 3>>)
           /\ sc_end # "running" => sc_printed = <<1, 2, 3>>

(***************************************************************************)
(* The bootstrap parser (bootstrap/parser.py).  A token is its type and    *)
(* its text; a token list ends with the EOF token _tokenize appends; the   *)
(* cursor of _TokenStream is an index into it (from 1).  A parsing         *)
(* function returns the tree and the cursor it leaves, or a ParseError.    *)
(* An AST node is a tuple that starts with the name of its class.          *)
(***************************************************************************)
Tok(type, value) == [type |-> type, value |-> value]

EofToken == Tok("EOF", "<eof>")

\* _TokenStream.peek: an offset past the end gives the last token
Peek(tokens, i, offset) ==
    IF i + offset > Len(tokens) THEN tokens[Len(tokens)] ELSE tokens[i + offset]

\* _TokenStream.check
Check(tokens, i, type) == tokens[i].type = type

\* an advance that skips a token
AdvanceSkipping(tokens, i) ==
    IF tokens[i].type = "EOF" THEN i
    ELSE IF i + 2 <= Len(tokens) THEN i + 2 ELSE i + 1

\* an advance without the test for EOF
AdvancePastEof(tokens, i) == i + 1

\* _TokenStream.advance: the cursor does not move past EOF
Advance(tokens, i) == IF tokens[i].type # "EOF" THEN i + 1 ELSE i

Parsed(ast, i) == [ok |-> TRUE, ast |-> ast, i |-> i]

\* raise ParseError(...) at the current token
ParseError(i) == [ok |-> FALSE, ast |-> <<"ParseError">>, i |-> i]

\* _TokenStream.expect, with the tree to return when the token is there
Expect(tokens, i, type, ast) ==
    IF Check(tokens, i, type) THEN Parsed(ast, Advance(tokens, i)) ELSE ParseError(i)

\* the operator text BinaryExpression gets for each operator token
OperatorText ==
    [ OR |-> "||", AND |-> "&&", EQ |-> "==", NEQ |-> "!=",
      LT |-> "<", LEQ |-> "<=", GT |-> ">", GEQ |-> ">=",
      PLUS |-> "+", MINUS |-> "-", MULTIPLY |-> "*", DIVIDE |-> "/" ]

\* the operators every function of the chain _parse_logical_or,
\* _parse_logical_and, _parse_equality, _parse_comparison, _parse_term,
\* _parse_factor loops on, the outermost function first
Ladder ==
    << {"OR"}, {"AND"}, {"EQ", "NEQ"}, {"LT", "LEQ", "GT", "GEQ"},
       {"PLUS", "MINUS"}, {"MULTIPLY", "DIVIDE"} >>

\* _looks_like_struct_literal, the cursor on the "{"
looks_like_struct_literal_any_identifier(tokens, i) ==
    \/ Peek(tokens, i, 1).type = "RBRACE"
    \/ Peek(tokens, i, 1).type = "IDENTIFIER"

looks_like_struct_literal(tokens, i) ==
    IF Peek(tokens, i, 1).type = "RBRACE" THEN TRUE
    ELSE IF Peek(tokens, i, 1).type # "IDENTIFIER" THEN FALSE
    ELSE Peek(tokens, i, 2).type = "COLON"

RECURSIVE parse_expression(_, _)
RECURSIVE ParseLevel(_, _, _)
RECURSIVE LevelLoop(_, _, _, _)
RECURSIVE parse_unary(_, _)
RECURSIVE parse_call(_, _)
RECURSIVE CallLoop(_, _, _)
RECURSIVE parse_primary(_, _)
RECURSIVE ExpressionList(_, _, _)
RECURSIVE parse_struct_literal_fields(_, _, _)

\* _parse_expression (lambdas, which start with "fn", are not among the inputs)
parse_expression(tokens, i) == ParseLevel(1, tokens, i)

\* level k of the chain: the operand of the next level, then the loop
ParseLevel(k, tokens, i) ==
    IF k > Len(Ladder) THEN parse_unary(tokens, i)
    ELSE LET left == ParseLevel(k + 1, tokens, i)
         IN  IF left.ok THEN LevelLoop(k, tokens, left.ast, left.i) ELSE left

\* "while self.tokens.match(op): right = next level; expr = BinaryExpression"
LevelLoop(k, tokens, expr, i) ==
    IF tokens[i].type \in Ladder[k]
    THEN LET right == ParseLevel(k + 1, tokens, Advance(tokens, i))
         IN  IF right.ok
             THEN LevelLoop(k, tokens,
                            <<"BinaryExpression", OperatorText[tokens[i].type],
                              expr, right.ast>>, right.i)
             ELSE right
    ELSE Parsed(expr, i)

\* _parse_unary
parse_unary(tokens, i) ==
    CASE Check(tokens, i, "MINUS") ->
             LET operand == parse_unary(tokens, Advance(tokens, i))
             IN  IF operand.ok
                 THEN Parsed(<<"UnaryExpression", "-", operand.ast>>, operand.i)
                 ELSE operand
      [] Check(tokens, i, "PLUS") -> parse_unary(tokens, Advance(tokens, i))
      [] Check(tokens, i, "NOT") ->
             LET operand == parse_unary(tokens, Advance(tokens, i))
             IN  IF operand.ok
                 THEN Parsed(<<"UnaryExpression", "!", operand.ast>>, operand.i)
                 ELSE operand
      [] Check(tokens, i, "AWAIT") ->
             LET operand == parse_unary(tokens, Advance(tokens, i))
             IN  IF operand.ok
                 THEN Parsed(<<"AwaitExpression", operand.ast>>, operand.i)
                 ELSE operand
      [] OTHER -> parse_call(tokens, i)

\* "while True: append(self._parse_expression()); if not match(COMMA): break"
\* and the closing token
ExpressionList(tokens, i, close) ==
    LET first == parse_expression(tokens, i)
    IN  IF ~first.ok THEN first
        ELSE IF Check(tokens, first.i, "COMMA")
        THEN LET rest == ExpressionList(tokens, Advance(tokens, first.i), close)
             IN  IF rest.ok THEN Parsed(<<first.ast>> \o rest.ast, rest.i) ELSE rest
        ELSE Expect(tokens, first.i, close, <<first.ast>>)

\* _parse_struct_literal_fields, the "{" consumed
parse_struct_literal_fields(tokens, i, fields) ==
    IF Check(tokens, i, "RBRACE") THEN Parsed(fields, Advance(tokens, i))
    ELSE IF ~Check(tokens, i, "IDENTIFIER") THEN ParseError(i)
    ELSE IF ~Check(tokens, i + 1, "COLON") THEN ParseError(i + 1)
    ELSE LET value == parse_expression(tokens, i + 2)
         IN  IF ~value.ok THEN value
             ELSE parse_struct_literal_fields(
                      tokens,
                      IF Check(tokens, value.i, "COMMA")
                      THEN Advance(tokens, value.i) ELSE value.i,
                      Append(fields, <<"ObjectField", tokens[i].value, value.ast>>))

\* _parse_call
parse_call(tokens, i) ==
    LET primary == parse_primary(tokens, i)
    IN  IF primary.ok THEN CallLoop(tokens, primary.ast, primary.i) ELSE primary

\* the loop of _parse_call (the identifier "parallel" is not among the inputs)
CallLoop(tokens, expr, i) ==
    CASE Check(tokens, i, "LPAREN") ->
             LET arguments == IF Check(tokens, i + 1, "RPAREN")
                              THEN Parsed(<<>>, i + 2)
                              ELSE ExpressionList(tokens, i + 1, "RPAREN")
             IN  IF arguments.ok
                 THEN CallLoop(tokens, <<"CallExpression", expr, arguments.ast>>,
                               arguments.i)
                 ELSE arguments
      [] Check(tokens, i, "DOT") ->
             IF tokens[i + 1].type \in {"IDENTIFIER", "INFO", "PRINT"}
             THEN CallLoop(tokens, <<"MemberExpression", expr, tokens[i + 1].value>>,
                           i + 2)
             ELSE ParseError(i + 1)
      [] Check(tokens, i, "LBRACKET") ->
             LET index == parse_expression(tokens, i + 1)
             IN  IF ~index.ok THEN index
                 ELSE IF Check(tokens, index.i, "RBRACKET")
                 THEN CallLoop(tokens, <<"IndexExpression", expr, index.ast>>,
                               index.i + 1)
                 ELSE ParseError(index.i)
      [] /\ expr[1] = "Identifier"
         /\ Check(tokens, i, "LBRACE")
         /\ looks_like_struct_literal(tokens, i) ->
             LET fields == parse_struct_literal_fields(tokens, i + 1, <<>>)
             IN  IF fields.ok
                 THEN CallLoop(tokens, <<"StructLiteral", expr[2], fields.ast>>,
                               fields.i)
                 ELSE fields
      [] OTHER -> Parsed(expr, i)

\* _parse_primary
parse_primary(tokens, i) ==
    CASE Check(tokens, i, "NUMBER") -> Parsed(<<"NumberLiteral", tokens[i].value>>, i + 1)
      [] Check(tokens, i, "STRING") -> Parsed(<<"StringLiteral", tokens[i].value>>, i + 1)
      [] Check(tokens, i, "TRUE") -> Parsed(<<"BooleanLiteral", "true">>, i + 1)
      [] Check(tokens, i, "FALSE") -> Parsed(<<"BooleanLiteral", "false">>, i + 1)
      [] Check(tokens, i, "NULL") -> Parsed(<<"NullLiteral">>, i + 1)
      [] Check(tokens, i, "PRINT") -> Parsed(<<"Identifier", "print">>, i + 1)
      [] Check(tokens, i, "INFO") -> Parsed(<<"Identifier", "info">>, i + 1)
      [] Check(tokens, i, "IDENTIFIER") -> Parsed(<<"Identifier", tokens[i].value>>, i + 1)
      [] Check(tokens, i, "LPAREN") ->
             LET expr == parse_expression(tokens, i + 1)
             IN  IF expr.ok THEN Expect(tokens, expr.i, "RPAREN", expr.ast) ELSE expr
      [] Check(tokens, i, "LBRACKET") ->
             LET elements == IF Check(tokens, i + 1, "RBRACKET")
                             THEN Parsed(<<>>, i + 2)
                             ELSE ExpressionList(tokens, i + 1, "RBRACKET")
             IN  IF elements.ok
                 THEN Parsed(<<"ArrayLiteral", elements.ast>>, elements.i)
                 ELSE elements
      [] OTHER -> ParseError(i)

RECURSIVE parse_statement(_, _)
RECURSIVE parse_block(_, _)
RECURSIVE BlockLoop(_, _, _)
RECURSIVE parse_if(_, _)

\* _parse_variable_declaration (without a type annotation)
parse_variable_declaration(tokens, i) ==
    LET afterMut == IF Check(tokens, i + 1, "MUT") THEN i + 2 ELSE i + 1
        mutable == IF Check(tokens, i + 1, "MUT") THEN "mut" ELSE "let"
    IN  IF ~Check(tokens, afterMut, "IDENTIFIER") THEN ParseError(afterMut)
        ELSE IF Check(tokens, afterMut + 1, "ASSIGN")
        THEN LET initializer == parse_expression(tokens, afterMut + 2)
             IN  IF initializer.ok
                 THEN Expect(tokens, initializer.i, "SEMICOLON",
                             <<"VariableDeclaration", tokens[afterMut].value,
                               initializer.ast, mutable>>)
                 ELSE initializer
        ELSE Expect(tokens, afterMut + 1, "SEMICOLON",
                    <<"VariableDeclaration", tokens[afterMut].value, <<"None">>, mutable>>)

\* _parse_return
parse_return(tokens, i) ==
    IF Check(tokens, i + 1, "SEMICOLON")
    THEN Parsed(<<"ReturnStatement", <<"None">>>>, i + 2)
    ELSE LET value == parse_expression(tokens, i + 1)
         IN  IF value.ok
             THEN Expect(tokens, value.i, "SEMICOLON", <<"ReturnStatement", value.ast>>)
             ELSE value

\* _parse_optional_parenthesised_expression
parse_optional_parenthesised_expression(tokens, i) ==
    IF Check(tokens, i, "LPAREN")
    THEN LET expr == parse_expression(tokens, i + 1)
         IN  IF expr.ok THEN Expect(tokens, expr.i, "RPAREN", expr.ast) ELSE expr
    ELSE parse_expression(tokens, i)

\* _parse_if
parse_if(tokens, i) ==
    LET condition == parse_optional_parenthesised_expression(tokens, i + 1)
    IN  IF ~condition.ok THEN condition
        ELSE LET then_block == parse_block(tokens, condition.i)
             IN  IF ~then_block.ok THEN then_block
                 ELSE IF Check(tokens, then_block.i, "ELSE")
                 THEN LET else_branch ==
                              IF Check(tokens, then_block.i + 1, "IF")
                              THEN parse_if(tokens, then_block.i + 1)
                              ELSE parse_block(tokens, then_block.i + 1)
                      IN  IF else_branch.ok
                          THEN Parsed(<<"IfStatement", condition.ast, then_block.ast,
                                        else_branch.ast>>, else_branch.i)
                          ELSE else_branch
                 ELSE Parsed(<<"IfStatement", condition.ast, then_block.ast, <<"None">>>>,
                             then_block.i)

\* _parse_block
parse_block(tokens, i) ==
    IF Check(tokens, i, "LBRACE") THEN BlockLoop(tokens, i + 1, <<>>) ELSE ParseError(i)

\* "while not match(RBRACE): if match(SEMICOLON): continue; append(statement)"
BlockLoop(tokens, i, statements) ==
    IF Check(tokens, i, "RBRACE") THEN Parsed(<<"Block", statements>>, i + 1)
    ELSE IF Check(tokens, i, "SEMICOLON") THEN BlockLoop(tokens, i + 1, statements)
    ELSE LET statement == parse_statement(tokens, i)
         IN  IF statement.ok
             THEN BlockLoop(tokens, statement.i, Append(statements, statement.ast))
             ELSE statement

\* _parse_statement (const, match, for, loop, routine, try and throw are not
\* among the inputs)
parse_statement(tokens, i) ==
    CASE Check(tokens, i, "LET") -> parse_variable_declaration(tokens, i)
      [] Check(tokens, i, "RETURN") -> parse_return(tokens, i)
      [] Check(tokens, i, "IF") -> parse_if(tokens, i)
      [] Check(tokens, i, "LBRACE") -> parse_block(tokens, i)
      [] OTHER ->
             LET expr == parse_expression(tokens, i)
             IN  IF ~expr.ok THEN expr
                 ELSE IF tokens[expr.i].type \in
                             {"ASSIGN", "PLUS_ASSIGN", "MINUS_ASSIGN",
                              "MULTIPLY_ASSIGN", "DIVIDE_ASSIGN"}
                 THEN LET value == parse_expression(tokens, expr.i + 1)
                      IN  IF value.ok
                          THEN Expect(tokens, value.i, "SEMICOLON",
                                      <<"Assignment", expr.ast, value.ast,
                                        tokens[expr.i].value>>)
                          ELSE value
                 ELSE Expect(tokens, expr.i, "SEMICOLON",
                             <<"ExpressionStatement", expr.ast>>)

(***************************************************************************)
(* The expression parser of the self-hosted compiler (sailfin_parser.py).  *)
(***************************************************************************)
\* current(parser): past the end of the list, an EOF token
current(tokens, pos) == IF pos <= Len(tokens) THEN tokens[pos] ELSE Tok("EOF", "")

getOperatorPrecedence(tokenType) ==
    CASE tokenType \in {"MULTIPLY", "DIVIDE"} -> 20
      [] tokenType \in {"PLUS", "MINUS"} -> 10
      [] tokenType \in {"EQ", "NEQ", "LT", "GT", "LEQ", "GEQ"} -> 5
      [] OTHER -> 0

\* raise RuntimeError(...)
RuntimeError(pos) == [ok |-> FALSE, ast |-> <<"RuntimeError">>, i |-> pos]

RECURSIVE parseBinaryExpression(_, _, _)
RECURSIVE BinaryLoop(_, _, _, _)
RECURSIVE parsePrimaryExpression(_, _)
RECURSIVE PostfixLoop(_, _, _)
RECURSIVE ArgumentList(_, _, _)

parseExpression(tokens, pos) == parseBinaryExpression(tokens, pos, 0)

parseBinaryExpression(tokens, pos, minPrecedence) ==
    LET left == parsePrimaryExpression(tokens, pos)
    IN  IF left.ok THEN BinaryLoop(tokens, left.ast, left.i, minPrecedence) ELSE left

\* the "while True" of parseBinaryExpression: it ends only on a token whose
\* precedence is below minPrecedence
BinaryLoop(tokens, left, pos, minPrecedence) ==
    LET tok == current(tokens, pos)
        precedence == getOperatorPrecedence(tok.type)
    IN  IF precedence < minPrecedence THEN Parsed(left, pos)
        ELSE LET right == parseBinaryExpression(tokens, pos + 1, precedence + 1)
             IN  IF right.ok
                 THEN BinaryLoop(tokens, <<"BinaryExpr", tok.value, left, right.ast>>,
                                 right.i, minPrecedence)
                 ELSE right

\* "append(parseExpression); while current is COMMA: advance; append(...)" and
\* the closing token
ArgumentList(tokens, pos, close) ==
    LET first == parseExpression(tokens, pos)
    IN  IF ~first.ok THEN first
        ELSE IF current(tokens, first.i).type = "COMMA"
        THEN LET rest == ArgumentList(tokens, first.i + 1, close)
             IN  IF rest.ok THEN Parsed(<<first.ast>> \o rest.ast, rest.i) ELSE rest
        ELSE IF current(tokens, first.i).type = close
        THEN Parsed(<<first.ast>>, first.i + 1)
        ELSE RuntimeError(first.i)

\* the call and index loop after an identifier
PostfixLoop(tokens, expr, pos) ==
    CASE current(tokens, pos).type = "LPAREN" ->
             LET args == IF current(tokens, pos + 1).type = "RPAREN"
                         THEN Parsed(<<>>, pos + 2)
                         ELSE ArgumentList(tokens, pos + 1, "RPAREN")
             IN  IF args.ok
                 THEN PostfixLoop(tokens, <<"CallExpr", expr, args.ast>>, args.i)
                 ELSE args
      [] current(tokens, pos).type = "LBRACKET" ->
             LET index == parseExpression(tokens, pos + 1)
             IN  IF ~index.ok THEN index
                 ELSE IF current(tokens, index.i).type = "RBRACKET"
                 THEN PostfixLoop(tokens, <<"IndexExpr", expr, index.ast>>, index.i + 1)
                 ELSE RuntimeError(index.i)
      [] OTHER -> Parsed(expr, pos)

parsePrimaryExpression(tokens, pos) ==
    LET tok == current(tokens, pos)
    IN  CASE tok.type = "NUMBER" -> Parsed(<<"NumberExpr", tok.value>>, pos + 1)
          [] tok.type = "STRING" -> Parsed(<<"StringExpr", tok.value>>, pos + 1)
          [] tok.type = "LBRACKET" ->
                 LET elements == IF current(tokens, pos + 1).type = "RBRACKET"
                                 THEN Parsed(<<>>, pos + 2)
                                 ELSE ArgumentList(tokens, pos + 1, "RBRACKET")
                 IN  IF elements.ok
                     THEN Parsed(<<"ArrayExpr", elements.ast>>, elements.i)
                     ELSE elements
          [] tok.type = "IDENTIFIER" ->
                 PostfixLoop(tokens, <<"IdentifierExpr", tok.value>>, pos + 1)
          [] tok.type = "LPAREN" ->
                 LET expr == parseExpression(tokens, pos + 1)
                 IN  IF ~expr.ok THEN expr
                     ELSE IF current(tokens, expr.i).type = "RPAREN"
                     THEN Parsed(expr.ast, expr.i + 1)
                     ELSE RuntimeError(expr.i)
          [] OTHER -> RuntimeError(pos)

(***************************************************************************)
(* The parsers run on one token list: an expression of identifiers and     *)
(* binary operators, a generic application or comparison                   *)
(* "Channel < number (, number)* > ...", or an identifier followed by "{", *)
(* as an expression, as the initializer of a "let", or as the condition of *)
(* an "if".                                                                *)
(***************************************************************************)
MaxOps == 2
MaxTypeArgs == 2
MaxBody == 4

Id(name) == Tok("IDENTIFIER", name)

OpTok(type) == Tok(type, OperatorText[type])

OperandNames == <<"a", "b", "c", "d", "e">>

\* operand, operator, operand, ... for a sequence of operator tokens
OpsTokens(ops) ==
    [p \in 1..(2 * Len(ops) + 1) |->
        IF p % 2 = 1 THEN Id(OperandNames[(((p + 1) \div 2 - 1) % Len(OperandNames)) + 1])
        ELSE OpTok(ops[p \div 2])]

OpsInputs == {OpsTokens(ops) : ops \in SeqsUpTo(DOMAIN OperatorText, MaxOps)}

TypeArgs(n) ==
    [p \in 1..(2 * n - 1) |-> IF p % 2 = 1 THEN Id("number") ELSE Tok("COMMA", ",")]

\* what follows the ">": a call with an argument, a call without one, a
\* number, or nothing
Continuations ==
    { <<Tok("LPAREN", "("), Tok("NUMBER", "10"), Tok("RPAREN", ")")>>,
      <<Tok("LPAREN", "("), Tok("RPAREN", ")")>>,
      <<Tok("NUMBER", "10")>>,
      <<>> }

GenericInputs ==
    { <<Id("Channel"), OpTok("LT")>> \o TypeArgs(n) \o <<OpTok("GT")>> \o cont :
        n \in 1..MaxTypeArgs, cont \in Continuations }

BodyTokens == { Id("f"), Tok("COLON", ":"), Tok("SEMICOLON", ";"), Tok("RBRACE", "}") }

BraceInputs ==
    { <<Id("x"), Tok("LBRACE", "{")>> \o body : body \in SeqsUpTo(BodyTokens, MaxBody) }

Families == {"ops", "generic", "brace"}

InputsOf(family) ==
    CASE family = "ops" -> OpsInputs
      [] family = "generic" -> GenericInputs
      [] family = "brace" -> BraceInputs

Contexts == {"expression", "let", "if"}

\* the statement around the input, and the EOF token of _tokenize
Tokenize(ctx, core) ==
    ( CASE ctx = "expression" -> core
        [] ctx = "let" ->
               <<Tok("LET", "let"), Id("v"), Tok("ASSIGN", "=")>> \o core
                   \o <<Tok("SEMICOLON", ";")>>
        [] ctx = "if" ->
               <<Tok("IF", "if")>> \o core
                   \o <<Tok("LBRACE", "{"), Tok("SEMICOLON", ";"), Tok("RBRACE", "}")>> )
        \o <<EofToken>>

\* where the input starts in the token list
CoreStart(ctx) == CASE ctx = "expression" -> 1 [] ctx = "let" -> 4 [] ctx = "if" -> 2

NoResult == [ok |-> FALSE, ast |-> <<"None">>, i |-> 0]

\* _tokenize
PrTokenize ==
    /\ pr_tokens = <<>>
    /\ pr_tokens' = Tokenize(pr_ctx, pr_core)
    /\ UNCHANGED <<pr_family, pr_core, pr_ctx, pr_min, pr_result, pr_self>>
    /\ UNCHANGED notParse

\* the bootstrap parser on the token list: _parse_expression, or
\* _parse_statement for the "let" and the "if"
PrParse ==
    /\ pr_tokens # <<>>
    /\ pr_result = NoResult
    /\ pr_result' = IF pr_ctx = "expression" THEN parse_expression(pr_tokens, 1)
                    ELSE parse_statement(pr_tokens, 1)
    /\ UNCHANGED <<pr_family, pr_core, pr_ctx, pr_min, pr_tokens, pr_self>>
    /\ UNCHANGED notParse

\* the self-hosted parser on the expression: parseBinaryExpression as
\* parseExpression calls it (minPrecedence 0) or as it calls itself for the
\* right operand of a token of precedence 0 (minPrecedence 1)
PrParseSelf ==
    /\ pr_family = "ops"
    /\ pr_self = NoResult
    /\ pr_self' = parseBinaryExpression(pr_core, 1, pr_min)
    /\ UNCHANGED <<pr_family, pr_core, pr_ctx, pr_min, pr_tokens, pr_result>>
    /\ UNCHANGED notParse

ParseInit ==
    /\ pr_family \in Families
    /\ pr_core \in InputsOf(pr_family)
    /\ pr_ctx \in Contexts
    /\ pr_min \in IF pr_family = "ops" THEN {0, 1} ELSE {0}
    /\ pr_tokens = <<>>
    /\ pr_result = NoResult
    /\ pr_self = NoResult

ParseIdle ==
    /\ pr_family = "ops"
    /\ pr_core = <<Id("a")>>
    /\ pr_ctx = "expression"
    /\ pr_min = 0
    /\ pr_tokens = <<>>
    /\ pr_result = NoResult
    /\ pr_self = NoResult

ParseNext == PrTokenize \/ PrParse \/ PrParseSelf

\* the expression the bootstrap parser made of the input
CoreAst ==
    CASE pr_ctx = "expression" -> pr_result.ast
      [] pr_ctx = "let" -> pr_result.ast[3]
      [] pr_ctx = "if" -> pr_result.ast[2]

\* the input is Name < Type (, Type)* > followed by "("
GenericCall == pr_family = "generic" /\ pr_core[Len(pr_core)].type = "RPAREN"

\* C12: when an identifier is followed by "< Type (, Type)* > (", the parser
\* yields a TypeApplication node, never a chain of comparisons.
C12_GenericApplicationIsTypeApplication ==
    (GenericCall /\ pr_result # NoResult)
        => pr_result.ok /\ CoreAst[1] = "TypeApplication"

\* the level of an operator on the ladder: "||" loosest, then "&&", equality,
\* comparison, additive, multiplicative
LadderLevel(type) ==
    CASE type = "OR" -> 1
      [] type = "AND" -> 2
      [] type \in {"EQ", "NEQ"} -> 3
      [] type \in {"LT", "LEQ", "GT", "GEQ"} -> 4
      [] type \in {"PLUS", "MINUS"} -> 5
      [] type \in {"MULTIPLY", "DIVIDE"} -> 6

RECURSIVE LadderTree(_, _, _)
\* the tree of the operands lo..hi of the input: it splits at the last of the
\* loosest operators (operators of one level associate to the left)
LadderTree(core, lo, hi) ==
    IF lo = hi THEN <<"operand", core[lo].value>>
    ELSE LET positions == {p \in lo..hi : p % 2 = 0}
             loosest == {p \in positions :
                            \A q \in positions :
                                LadderLevel(core[p].type) <= LadderLevel(core[q].type)}
             split == CHOOSE p \in loosest : \A q \in loosest : q <= p
         IN  <<"binary", core[split].value,
               LadderTree(core, lo, split - 1), LadderTree(core, split + 1, hi)>>

RECURSIVE Shape(_)
\* a tree of either parser, without the names of the node classes
Shape(ast) ==
    IF ast[1] \in {"BinaryExpression", "BinaryExpr"}
    THEN <<"binary", ast[2], Shape(ast[3]), Shape(ast[4])>>
    ELSE <<"operand", ast[2]>>

\* C14: binary expressions are parsed according to the precedence ladder
\* ("||", "&&", equality, comparison, additive, multiplicative, loosest
\* first; one level associates to the left): the tree the bootstrap parser
\* returns, and the tree the self-hosted parser returns when it has read the
\* whole expression, is the tree of the ladder.
C14_PrecedenceLadder ==
    pr_family = "ops"
        => /\ pr_result # NoResult
                => pr_result.ok
                   /\ Shape(CoreAst) = LadderTree(pr_core, 1, Len(pr_core))
           /\ (pr_self.ok /\ pr_self.i = Len(pr_core) + 1)
                => Shape(pr_self.ast) = LadderTree(pr_core, 1, Len(pr_core))

\* where the "{" of the input stands in the token list
BracePos == CoreStart(pr_ctx) + 1

\* C15: an identifier followed by "{" is parsed as a struct literal if and
\* only if the token after the brace is "}" or is an identifier directly
\* followed by ":"; in every other case the "{" is left unconsumed: the
\* expression is the identifier alone, and the brace starts the block of the
\* enclosing "if" (after a "let" initializer it is a syntax error at the brace).
C15_StructLiteralOrBlock ==
    (pr_family = "brace" /\ pr_result # NoResult)
        => IF \/ pr_tokens[BracePos + 1].type = "RBRACE"
              \/ /\ pr_tokens[BracePos + 1].type = "IDENTIFIER"
                 /\ pr_tokens[BracePos + 2].type = "COLON"
           THEN IF pr_result.ok THEN CoreAst[1] = "StructLiteral"
                ELSE pr_result.i > BracePos
           ELSE CASE pr_ctx = "expression" ->
                         pr_result = Parsed(<<"Identifier", "x">>, BracePos)
                  [] pr_ctx = "let" -> pr_result = ParseError(BracePos)
                  [] pr_ctx = "if" ->
                         IF pr_result.ok
                         THEN /\ CoreAst = <<"Identifier", "x">>
                              /\ pr_result.ast[3][1] = "Block"
                         ELSE pr_result.i > BracePos

\* "if x { f : f } { ; }" was parsed: the condition is a struct literal with
\* one field
C15_Witness ==
    /\ pr_family = "brace" /\ pr_ctx = "if" /\ pr_result.ok
    /\ CoreAst[1] = "StructLiteral"
    /\ Len(CoreAst[3]) = 1


(***************************************************************************)
(* Parser.parse and parse_program (bootstrap/parser.py), parseProgram      *)
(* (sailfin_parser.py), seen from the token stream.  The parsing functions *)
(* touch the cursor only through advance (match and expect call it): a     *)
(* function under the loop of the program is any sequence of advances that *)
(* ends by returning or by raising.                                        *)
(***************************************************************************)
MaxTokens == 3

StreamTokens == {Tok("LET", "let"), Tok("IDENTIFIER", "v"), Tok("SEMICOLON", ";")}

\* _tokenize appends the EOF token; the list of the self-hosted lexer has none
StreamInputs(impl) ==
    { IF impl = "bootstrap" THEN ts \o <<EofToken>> ELSE ts :
        ts \in SeqsUpTo(StreamTokens, MaxTokens) }

\* _TokenStream.current; current(parser) of the self-hosted parser
StreamCurrent ==
    IF ts_impl = "bootstrap" THEN ts_tokens[ts_index] ELSE current(ts_tokens, ts_index)

\* the cursor after advance: the self-hosted one moves on unconditionally
StreamAdvance ==
    IF ts_impl = "bootstrap" THEN Advance(ts_tokens, ts_index) ELSE ts_index + 1

\* "if self.tokens.match("SEMICOLON"): continue" of parse_program
TsSkipSemicolon ==
    /\ ts_impl = "bootstrap"
    /\ ts_pc = "loop"
    /\ StreamCurrent.type = "SEMICOLON"
    /\ ts_index' = StreamAdvance
    /\ ts_consumed' = Append(ts_consumed, ts_index)
    /\ UNCHANGED <<ts_impl, ts_tokens, ts_pc>>
    /\ UNCHANGED notStream

\* the loop calls _parse_top_level, parseStatement
TsStatement ==
    /\ ts_pc = "loop"
    /\ StreamCurrent.type # "EOF"
    /\ ts_impl = "bootstrap" => StreamCurrent.type # "SEMICOLON"
    /\ ts_pc' = "statement"
    /\ UNCHANGED <<ts_impl, ts_tokens, ts_index, ts_consumed>>
    /\ UNCHANGED notStream

\* a parsing function takes the current token: advance, a match or an
\* expect that finds its token.  The bootstrap cursor stays on EOF; the
\* self-hosted one goes past the end of the list.
TsAdvance ==
    /\ ts_pc = "statement"
    /\ ts_index <= Len(ts_tokens) + 1
    /\ ts_index' = StreamAdvance
    /\ ts_consumed' = IF ts_index' # ts_index THEN Append(ts_consumed, ts_index)
                      ELSE ts_consumed
    /\ UNCHANGED <<ts_impl, ts_tokens, ts_pc>>
    /\ UNCHANGED notStream

\* an expect that does not find its token: ParseError, RuntimeError
TsRaise ==
    /\ ts_pc = "statement"
    /\ ts_pc' = "raised"
    /\ UNCHANGED <<ts_impl, ts_tokens, ts_index, ts_consumed>>
    /\ UNCHANGED notStream

\* the function returns its statement to the loop
TsReturn ==
    /\ ts_pc = "statement"
    /\ ts_pc' = "loop"
    /\ UNCHANGED <<ts_impl, ts_tokens, ts_index, ts_consumed>>
    /\ UNCHANGED notStream

\* "while not self.tokens.at_end()", "while current(parser).type != "EOF"":
\* the loop ends and the Program is built
TsProgram ==
    /\ ts_pc = "loop"
    /\ StreamCurrent.type = "EOF"
    /\ ts_pc' = "program"
    /\ UNCHANGED <<ts_impl, ts_tokens, ts_index, ts_consumed>>
    /\ UNCHANGED notStream

\* Parser.parse: stream.expect("EOF"), return program; parseProgram returns
\* the Program as it is
TsExpectEof ==
    /\ ts_pc = "program"
    /\ ts_pc' = IF ts_impl = "selfhosted" \/ StreamCurrent.type = "EOF"
                THEN "returned" ELSE "raised"
    /\ UNCHANGED <<ts_impl, ts_tokens, ts_index, ts_consumed>>
    /\ UNCHANGED notStream

StreamInit ==
    /\ ts_impl \in {"bootstrap", "selfhosted"}
    /\ ts_tokens \in StreamInputs(ts_impl)
    /\ ts_index = 1
    /\ ts_consumed = <<>>
    /\ ts_pc = "loop"

StreamIdle ==
    /\ ts_impl = "bootstrap"
    /\ ts_tokens = <<EofToken>>
    /\ ts_index = 1
    /\ ts_consumed = <<>>
    /\ ts_pc = "loop"

StreamNext ==
    \/ TsSkipSemicolon \/ TsStatement \/ TsAdvance \/ TsRaise \/ TsReturn
    \/ TsProgram \/ TsExpectEof

\* the tokens before EOF: all but the last of the bootstrap list, all of
\* the self-hosted list
TokensBeforeEof == IF ts_impl = "bootstrap" THEN Len(ts_tokens) - 1 ELSE Len(ts_tokens)

\* C13: when the parser returns a Program, every token before EOF has been
\* consumed exactly once and in order, and the cursor stands on EOF: no
\* trailing token is ignored.
C13_ParserTotality ==
    ts_pc = "returned"
        => /\ StreamCurrent.type = "EOF"
           /\ Len(ts_consumed) >= TokensBeforeEof
           /\ \A k \in 1..Len(ts_consumed) : ts_consumed[k] = k
           /\ ts_impl = "bootstrap" => ts_index = Len(ts_tokens)

\* a Program was returned for a list of MaxTokens tokens with a statement
\* after a skipped ";"
C13_Witness ==
    /\ ts_pc = "returned"
    /\ ts_impl = "bootstrap"
    /\ TokensBeforeEof = MaxTokens
    /\ ts_tokens[1].type = "SEMICOLON"
    /\ ts_tokens[2].type = "LET"

(***************************************************************************)
(* The lexers: lex of the self-hosted compiler (sailfin_lexer.py) and the  *)
(* PLY rules of the bootstrap lexer (bootstrap/lexer.py), on a source of   *)
(* the characters / * " a newline # and ;                                  *)
(***************************************************************************)
MaxSource == 4

Chars == {"/", "*", "\"", "a", "\n", "#", ";"}

\* source[pos], positions counted from 0
At(source, pos) == source[pos + 1]

\* the first position from pos on where stop holds, the end of the source if
\* there is none: "while pos < len(source) and not stop: pos = pos + 1"
ScanTo(source, pos, stop(_)) ==
    LET ends == {q \in pos..Len(source) : q = Len(source) \/ stop(q)}
    IN  CHOOSE q \in ends : \A r \in ends : q <= r

\* the test "((c == "/") and pos) + 1 < len(source) and source[pos + 1] ==
\* second" as Python evaluates it: "(c == "/") and pos" is pos for a "/" and
\* False, which counts as 0, for any other character
CommentTestIntended(source, pos, second) ==
    IF At(source, pos) = "/" /\ pos + 1 < Len(source) /\ At(source, pos + 1) = second
    THEN "enter" ELSE "skip"

CommentTest(source, pos, second) ==
    LET left == IF At(source, pos) = "/" THEN pos ELSE 0
    IN  IF ~(left + 1 < Len(source)) THEN "skip"
        ELSE IF ~(pos + 1 < Len(source)) THEN "IndexError"
        ELSE IF At(source, pos + 1) = second THEN "enter" ELSE "skip"

\* a newline branch that leaves out "pos = (pos + 1)"
LexResultNewlineStays(status, pos, tokens, branch) ==
    [status |-> status, pos |-> IF branch = "newline" THEN pos - 1 ELSE pos,
     tokens |-> tokens, branch |-> branch]

LexResult(status, pos, tokens, branch) ==
    [status |-> status, pos |-> pos, tokens |-> tokens, branch |-> branch]

\* one iteration of the "while (pos < len(source))" of lex
LexIteration(source, pos) ==
    LET c == At(source, pos)
        n == Len(source)
    IN  CASE c = "\n" -> LexResult("lexing", pos + 1, <<>>, "newline")
          [] c = "a" ->
                 LexResult("lexing", ScanTo(source, pos, LAMBDA q : At(source, q) # "a"),
                           <<"IDENTIFIER">>, "word")
          [] c = "\"" ->
                 LET close == ScanTo(source, pos + 1, LAMBDA q : At(source, q) = "\"")
                 IN  IF close >= n THEN LexResult("RuntimeError", close, <<>>, "string")
                     ELSE LexResult("lexing", close + 1, <<"STRING">>, "string")
          [] OTHER ->
                 IF CommentTest(source, pos, "/") = "IndexError"
                 THEN LexResult("IndexError", pos, <<>>, "line_comment_test")
                 ELSE IF CommentTest(source, pos, "/") = "enter"
                 THEN LexResult("lexing",
                                ScanTo(source, pos + 2, LAMBDA q : At(source, q) = "\n"),
                                <<>>, "line_comment")
                 ELSE IF CommentTest(source, pos, "*") = "IndexError"
                 THEN LexResult("IndexError", pos, <<>>, "block_comment_test")
                 ELSE IF CommentTest(source, pos, "*") = "enter"
                 THEN LET star == IF pos + 2 >= n THEN pos + 2
                                  ELSE ScanTo(source, pos + 2,
                                              LAMBDA q : \/ ~(q + 1 < n)
                                                         \/ /\ At(source, q) = "*"
                                                            /\ At(source, q + 1) = "/")
                      IN  LexResult("lexing", star + 2, <<>>, "block_comment")
                 ELSE CASE c = "*" -> LexResult("lexing", pos + 1, <<"MULTIPLY">>, "operator")
                        [] c = "/" -> LexResult("lexing", pos + 1, <<"DIVIDE">>, "operator")
                        [] c = ";" -> LexResult("lexing", pos + 1, <<"SEMICOLON">>, "operator")
                        [] OTHER -> LexResult("RuntimeError", pos, <<>>, "illegal")

\* the end of the PLY rule t_multiline_comment, r'/\*(.|\n)*?\*/', from a
\* "/*" at pos: the position after the first "*/", or -1 without one
MultilineCommentEnd(source, pos) ==
    LET n == Len(source)
        stars == {q \in (pos + 2)..(n - 2) : At(source, q) = "*" /\ At(source, q + 1) = "/"}
    IN  IF stars = {} THEN -1
        ELSE (CHOOSE q \in stars : \A r \in stars : q <= r) + 2

\* the end of the PLY rule t_STRING, r'\"([^\\\n]|(\\.))*?\"', from a quote at
\* pos: the position after the next quote of the line, or -1 without one
StringEnd(source, pos) ==
    LET stop == ScanTo(source, pos + 1, LAMBDA q : At(source, q) \in {"\"", "\n"})
    IN  IF stop < Len(source) /\ At(source, stop) = "\"" THEN stop + 1 ELSE -1

\* one token() of the PLY lexer: the function rules in the order of the
\* file (t_IDENTIFIER, t_STRING, t_newline, t_comment, t_multiline_comment),
\* then the string rules, then t_error
PlyToken(source, pos) ==
    LET c == At(source, pos)
        n == Len(source)
    IN  CASE c = "a" ->
                 LexResult("lexing", ScanTo(source, pos, LAMBDA q : At(source, q) # "a"),
                           <<"IDENTIFIER">>, "t_IDENTIFIER")
          [] c = "\"" /\ StringEnd(source, pos) # -1 ->
                 LexResult("lexing", StringEnd(source, pos), <<"STRING">>, "t_STRING")
          [] c = "\n" ->
                 LexResult("lexing", ScanTo(source, pos, LAMBDA q : At(source, q) # "\n"),
                           <<>>, "t_newline")
          [] c = "/" /\ pos + 1 < n /\ At(source, pos + 1) = "/" ->
                 LexResult("lexing",
                           ScanTo(source, pos + 2, LAMBDA q : At(source, q) = "\n"),
                           <<>>, "t_comment")
          [] /\ c = "/" /\ pos + 1 < n /\ At(source, pos + 1) = "*"
             /\ MultilineCommentEnd(source, pos) # -1 ->
                 LexResult("lexing", MultilineCommentEnd(source, pos), <<>>,
                           "t_multiline_comment")
          [] c = "/" /\ ~(pos + 1 < n /\ At(source, pos + 1) = "/")
                     /\ ~(/\ pos + 1 < n /\ At(source, pos + 1) = "*"
                          /\ MultilineCommentEnd(source, pos) # -1) ->
                 LexResult("lexing", pos + 1, <<"DIVIDE">>, "t_DIVIDE")
          [] c = "*" -> LexResult("lexing", pos + 1, <<"MULTIPLY">>, "t_MULTIPLY")
          [] c = ";" -> LexResult("lexing", pos + 1, <<"SEMICOLON">>, "t_SEMICOLON")
          [] OTHER -> LexResult("LexerError", pos, <<>>, "t_error")

\* an iteration of the loop of lex
LexStep ==
    /\ lx_impl = "selfhosted"
    /\ lx_status = "lexing"
    /\ lx_pos < Len(lx_source)
    /\ LET r == LexIteration(lx_source, lx_pos)
       IN  /\ lx_status' = r.status
           /\ lx_pos' = r.pos
           /\ lx_tokens' = lx_tokens \o r.tokens
           /\ lx_branch' = r.branch
    /\ lx_at' = lx_pos
    /\ UNCHANGED <<lx_impl, lx_source>>
    /\ UNCHANGED notLex

\* a call of lexer.token() by _tokenize
PlyStep ==
    /\ lx_impl = "bootstrap"
    /\ lx_status = "lexing"
    /\ lx_pos < Len(lx_source)
    /\ LET r == PlyToken(lx_source, lx_pos)
       IN  /\ lx_status' = r.status
           /\ lx_pos' = r.pos
           /\ lx_tokens' = lx_tokens \o r.tokens
           /\ lx_branch' = r.branch
    /\ lx_at' = lx_pos
    /\ UNCHANGED <<lx_impl, lx_source>>
    /\ UNCHANGED notLex

\* the loop ends: "return tokens"; token() returns None at the end
LexReturn ==
    /\ lx_status = "lexing"
    /\ lx_pos >= Len(lx_source)
    /\ lx_status' = "returned"
    /\ UNCHANGED <<lx_impl, lx_source, lx_pos, lx_tokens, lx_at, lx_branch>>
    /\ UNCHANGED notLex

LexInit ==
    /\ lx_impl \in {"bootstrap", "selfhosted"}
    /\ lx_source \in SeqsUpTo(Chars, MaxSource)
    /\ lx_pos = 0
    /\ lx_tokens = <<>>
    /\ lx_at = -1
    /\ lx_branch = "none"
    /\ lx_status = "lexing"

LexIdle ==
    /\ lx_impl = "bootstrap"
    /\ lx_source = <<>>
    /\ lx_pos = 0
    /\ lx_tokens = <<>>
    /\ lx_at = -1
    /\ lx_branch = "none"
    /\ lx_status = "lexing"

LexNext == LexStep \/ PlyStep \/ LexReturn

\* after words, ";" and newlines the source has, at position p, an illegal
\* character, a quote without a second quote, or a "/*" without a "*/"
Offending(source) ==
    \E p \in 0..(Len(source) - 1) :
        /\ \A q \in 0..(p - 1) : At(source, q) \in {"a", ";", "\n"}
        /\ \/ At(source, p) = "#"
           \/ /\ At(source, p) = "\""
              /\ \A q \in (p + 1)..(Len(source) - 1) : At(source, q) # "\""
           \/ /\ At(source, p) = "/"
              /\ p + 1 < Len(source)
              /\ At(source, p + 1) = "*"
              /\ \A q \in (p + 2)..(Len(source) - 2) :
                     ~(At(source, q) = "*" /\ At(source, q + 1) = "/")

\* C16: on an illegal character, an unterminated string literal or an
\* unterminated block comment the lexer fails: it never returns a token list.
C16_LexerFailsOnBadInput ==
    Offending(lx_source) => lx_status # "returned"

\* C17: in lex the line-comment (block-comment) branch is entered only from
\* a "/" that has a next character and that next character is "/" ("*"), and
\* no index past the end of the source is read.
C17_CommentBranchOnlyAfterSlash ==
    lx_impl = "selfhosted"
        => /\ lx_status # "IndexError"
           /\ lx_branch = "line_comment"
                => CommentTestIntended(lx_source, lx_at, "/") = "enter"
           /\ lx_branch = "block_comment"
                => CommentTestIntended(lx_source, lx_at, "*") = "enter"

(***************************************************************************)
(* The positional rules: ASTValidator.validate (bootstrap/validator.py)    *)
(* and the visitors of PythonCodeGenerator on one statement (a return, an  *)
(* await expression statement, a throw) under a path of enclosing          *)
(* declarations, outermost first; the empty path is the module level.      *)
(* The node classes are the ones validator.py and code_generator.py name.  *)
(***************************************************************************)
MaxDepth == 2

Enclosing ==
    {[class |-> "FunctionDeclaration", is_async |-> b] : b \in BOOLEAN}
        \cup {[class |-> c, is_async |-> FALSE] :
                c \in {"TestDeclaration", "LambdaExpression", "AsyncBlock"}}

Statements == {"ReturnStatement", "Await", "ThrowStatement"}

RECURSIVE validate(_, _)
\* ASTValidator.validate: every branch of a declaration validates the
\* statements of the body, the branches of ReturnStatement and Await validate
\* the expression, a class without a branch is an unknown node
validate(path, leaf) ==
    IF path # <<>> THEN validate(Tail(path), leaf)
    ELSE IF leaf \in {"ReturnStatement", "Await"} THEN "ok"
    ELSE "ValidationError"

CodeLine(indent, text) == [indent |-> indent, text |-> text]

RECURSIVE visit(_, _, _)
\* PythonCodeGenerator.visit: visit_FunctionDeclaration, visit_TestDeclaration,
\* visit_LambdaExpression, visit_AsyncBlock append the header and visit the
\* body one level deeper; visit_ReturnStatement, visit_Await (under
\* visit_ExpressionStatement) and visit_ThrowStatement append their line
visit(path, leaf, indent_level) ==
    IF path = <<>>
    THEN << CodeLine(indent_level,
                     CASE leaf = "ReturnStatement" -> "return"
                       [] leaf = "Await" -> "await x"
                       [] leaf = "ThrowStatement" -> "raise Exception(x)") >>
    ELSE LET node == Head(path)
             header ==
                 CASE node.class = "FunctionDeclaration" ->
                          IF node.is_async THEN "async def" ELSE "def"
                   [] node.class = "TestDeclaration" -> "def"
                   [] node.class = "LambdaExpression" -> "def"
                   [] node.class = "AsyncBlock" -> "async def"
         IN  IF node.class = "AsyncBlock" /\ Len(path) = 1 /\ leaf = "Await"
             THEN <<CodeLine(indent_level, header),
                    CodeLine(indent_level + 1, "return await x")>>
             ELSE <<CodeLine(indent_level, header)>>
                      \o visit(Tail(path), leaf, indent_level + 1)

\* validator.validate(ast) of the driver
PsValidate ==
    /\ ps_stage = "validate"
    /\ ps_valid' = validate(ps_path, ps_leaf)
    /\ ps_stage' = IF ps_valid' = "ok" THEN "generate" ELSE "failed"
    /\ UNCHANGED <<ps_path, ps_leaf, ps_code>>
    /\ UNCHANGED notPos

\* the code generator on the validated tree
PsGenerate ==
    /\ ps_stage = "generate"
    /\ ps_code' = visit(ps_path, ps_leaf, 0)
    /\ ps_stage' = "done"
    /\ UNCHANGED <<ps_path, ps_leaf, ps_valid>>
    /\ UNCHANGED notPos

PosInit ==
    /\ ps_path \in SeqsUpTo(Enclosing, MaxDepth)
    /\ ps_leaf \in Statements
    /\ ps_stage = "validate"
    /\ ps_valid = "none"
    /\ ps_code = <<>>

PosIdle ==
    /\ ps_path = <<>>
    /\ ps_leaf = "ThrowStatement"
    /\ ps_stage = "validate"
    /\ ps_valid = "none"
    /\ ps_code = <<>>

PosNext == PsValidate \/ PsGenerate

\* the statement is lexically inside an async function or an async block
InAsync ==
    \E k \in 1..Len(ps_path) :
        \/ ps_path[k].class = "AsyncBlock"
        \/ ps_path[k].class = "FunctionDeclaration" /\ ps_path[k].is_async

\* the statement is lexically inside a function, method or lambda body
InFunction ==
    \E k \in 1..Len(ps_path) :
        ps_path[k].class \in {"FunctionDeclaration", "LambdaExpression"}

\* C18: the code generator emits target code for an await only when the
\* await is lexically inside an async function or an async block.
C18_AwaitOnlyInAsync ==
    (ps_leaf = "Await" /\ ps_stage = "done")
        => ((\E k \in 1..Len(ps_code) : ps_code[k].text \in {"await x", "return await x"})
                => InAsync)

\* C19: the validator accepts a return only inside a function, method or
\* lambda body; at module level or directly in a test body validate fails
\* with ValidationError.
C19_ReturnOnlyInFunction ==
    (ps_leaf = "ReturnStatement" /\ ps_valid # "none")
        => /\ ps_valid = "ok" => InFunction
           /\ (ps_path = <<>> \/ ps_path[Len(ps_path)].class = "TestDeclaration")
                => ps_valid = "ValidationError"

(***************************************************************************)
(* visit_MatchStatement (bootstrap/code_generator.py) and the run of the   *)
(* Python match statement it emits, followed by one more statement.        *)
(***************************************************************************)
MaxArms == 2

\* visit_NumberPattern and visit_WildcardPattern give the text of the pattern
Patterns == {"1", "2", "_"}

Values == {"1", "2", "3"}

MatchLine(kind, arg) == [kind |-> kind, arg |-> arg]

RECURSIVE ArmLines(_, _)
\* "for arm in node.arms": a case line and the body of the arm
ArmLines(arms, k) ==
    IF k > Len(arms) THEN <<>>
    ELSE <<MatchLine("case", arms[k]), MatchLine("body", arms[k])>> \o ArmLines(arms, k + 1)

\* the lines of visit_MatchStatement: nothing is emitted after the last arm
visit_MatchStatement(arms) == <<MatchLine("match", "shape")>> \o ArmLines(arms, 1)

\* a Python case pattern against the value: a literal, or the wildcard
Matches(pattern, value) == pattern = "_" \/ pattern = value

\* Python compiles the emitted match: it needs a case, and a wildcard case
\* has to be the last one
Compiles(code) ==
    /\ \E k \in 1..Len(code) : code[k].kind = "case"
    /\ \A k \in 1..Len(code) :
           (code[k].kind = "case" /\ code[k].arg = "_")
               => \A j \in (k + 1)..Len(code) : code[j].kind # "case"

\* the code generator visits the match and the statement after it
MtGenerate ==
    /\ mt_status = "generate"
    /\ mt_code' = visit_MatchStatement(mt_arms) \o <<MatchLine("after", "")>>
    /\ mt_status' = "running"
    /\ UNCHANGED <<mt_arms, mt_value, mt_line, mt_taken>>
    /\ UNCHANGED notMatch

\* exec of the emitted code reaches the match statement
MtStart ==
    /\ mt_status = "running"
    /\ mt_line = 0
    /\ IF Compiles(mt_code)
       THEN mt_line' = 2 /\ mt_status' = "running"
       ELSE mt_line' = 0 /\ mt_status' = "SyntaxError"
    /\ UNCHANGED <<mt_arms, mt_value, mt_code, mt_taken>>
    /\ UNCHANGED notMatch

\* the match statement tries a case: the body runs and the statement ends,
\* or the next case is tried; after the last case the statement ends
MtCase ==
    /\ mt_status = "running"
    /\ mt_line > 0
    /\ mt_code[mt_line].kind = "case"
    /\ IF Matches(mt_code[mt_line].arg, mt_value)
       THEN /\ mt_taken' = mt_line \div 2
            /\ mt_line' = Len(mt_code)
       ELSE /\ mt_taken' = mt_taken
            /\ mt_line' = mt_line + 2
    /\ UNCHANGED <<mt_arms, mt_value, mt_code, mt_status>>
    /\ UNCHANGED notMatch

\* the statement after the match runs
MtAfter ==
    /\ mt_status = "running"
    /\ mt_line > 0
    /\ mt_code[mt_line].kind = "after"
    /\ mt_status' = "after"
    /\ UNCHANGED <<mt_arms, mt_value, mt_code, mt_line, mt_taken>>
    /\ UNCHANGED notMatch

MatchInit ==
    /\ mt_arms \in SeqsUpTo(Patterns, MaxArms)
    /\ mt_value \in Values
    /\ mt_code = <<>>
    /\ mt_line = 0
    /\ mt_taken = 0
    /\ mt_status = "generate"

MatchIdle ==
    /\ mt_arms = <<>>
    /\ mt_value = "1"
    /\ mt_code = <<>>
    /\ mt_line = 0
    /\ mt_taken = 0
    /\ mt_status = "generate"

MatchNext == MtGenerate \/ MtStart \/ MtCase \/ MtAfter

\* C20: the arm that runs is the first one, in textual order, whose pattern
\* matches the scrutinee; when no arm matches, the run does not go on to the
\* statement after the match (the non-exhaustive-match error is raised).
C20_MatchOrderedAndExhaustive ==
    /\ mt_taken # 0
         => /\ Matches(mt_arms[mt_taken], mt_value)
            /\ \A j \in 1..(mt_taken - 1) : ~Matches(mt_arms[j], mt_value)
    /\ mt_status = "after" => mt_taken # 0

(***************************************************************************)
(* The type parameters in scope: the StructDeclaration branch of           *)
(* ASTValidator.validate (bootstrap/validator.py), called again and again  *)
(* on the validator a ModuleLoader keeps.                                  *)
(***************************************************************************)
MaxDecls == 3
MaxMembers == 2

TypeParams == {"T", "U"}

\* validate(node) of a struct declaration: the name and the type parameters
\* are checked, then "prev_type_params = current_type_params.copy();
\* current_type_params.update(node.type_params)"
VlEnter ==
    /\ vl_pc = "idle"
    /\ vl_calls < MaxDecls
    /\ vl_calls' = vl_calls + 1
    /\ vl_before' = vl_params
    /\ vl_members' = 0
    /\ \E type_params \in SUBSET TypeParams, identifiers \in BOOLEAN :
           IF identifiers
           THEN /\ vl_prev' = vl_params
                /\ vl_params' = vl_params \cup type_params
                /\ vl_pc' = "members"
                /\ vl_last' = vl_last
           ELSE /\ vl_last' = "raised"
                /\ UNCHANGED <<vl_prev, vl_params, vl_pc>>
    /\ UNCHANGED notValidator

\* "for member in node.members: self.validate(member)", a member that is valid
VlMember ==
    /\ vl_pc = "members"
    /\ vl_members < MaxMembers
    /\ vl_members' = vl_members + 1
    /\ UNCHANGED <<vl_params, vl_prev, vl_before, vl_pc, vl_last, vl_calls>>
    /\ UNCHANGED notValidator

\* a member raises ValidationError: the exception leaves validate
VlMemberRaises ==
    /\ vl_pc = "members"
    /\ vl_members < MaxMembers
    /\ vl_pc' = "idle"
    /\ vl_last' = "raised"
    /\ UNCHANGED <<vl_params, vl_prev, vl_before, vl_calls, vl_members>>
    /\ UNCHANGED notValidator

\* "self.current_type_params = prev_type_params" after the last member
VlExit ==
    /\ vl_pc = "members"
    /\ vl_params' = vl_prev
    /\ vl_pc' = "idle"
    /\ vl_last' = "returned"
    /\ UNCHANGED <<vl_prev, vl_before, vl_calls, vl_members>>
    /\ UNCHANGED notValidator

ValidatorInit ==
    /\ vl_params = {}
    /\ vl_prev = {}
    /\ vl_before = {}
    /\ vl_pc = "idle"
    /\ vl_last = "none"
    /\ vl_calls = 0
    /\ vl_members = 0

ValidatorIdle == ValidatorInit

ValidatorNext == VlEnter \/ VlMember \/ VlMemberRaises \/ VlExit

\* C21: after validate of a declaration has finished, by returning or by
\* raising ValidationError, current_type_params is what it was before the call.
C21_TypeParamsRestored ==
    (vl_pc = "idle" /\ vl_last # "none") => vl_params = vl_before

(***************************************************************************)
(* _detect_functions_with_routines (bootstrap/code_generator.py): the      *)
(* RoutineDetector on "fn f" whose body holds one statement under a path   *)
(* of nested nodes.  A FunctionDeclaration on the path is named after its  *)
(* depth.                                                                  *)
(***************************************************************************)
MaxNest == 2

\* the catch blocks of a TryCatchFinally are a list of tuples
NestingNodes ==
    {"IfStatement", "LambdaExpression", "FunctionExpression", "FunctionDeclaration",
     "TryCatchFinally.catch_blocks"}

NestedNames == <<"g", "h", "k", "l">>

NameAt(k) == IF k = 0 THEN "f" ELSE NestedNames[((k - 1) % Len(NestedNames)) + 1]

\* RoutineDetector.visit on the next node of the path: visit_FunctionDeclaration
\* sets current_function; generic_visit goes into every field that is an
\* object or a list of objects, and into no tuple
RdVisit ==
    /\ rd_pc = "walk"
    /\ rd_pos < Len(rd_path)
    /\ LET node == rd_path[rd_pos + 1]
       IN  IF node = "TryCatchFinally.catch_blocks"
           THEN /\ rd_pc' = "done"
                /\ UNCHANGED <<rd_pos, rd_current>>
           ELSE /\ rd_pos' = rd_pos + 1
                /\ rd_current' = IF node = "FunctionDeclaration" THEN NameAt(rd_pos + 1)
                                 ELSE rd_current
                /\ rd_pc' = "walk"
    /\ UNCHANGED <<rd_path, rd_leaf, rd_set>>
    /\ UNCHANGED notDetector

\* the statement itself: visit_Routine adds current_function, generic_visit
\* of any other statement adds nothing
RdStatement ==
    /\ rd_pc = "walk"
    /\ rd_pos = Len(rd_path)
    /\ rd_set' = IF rd_leaf = "Routine" /\ rd_current # ""
                 THEN rd_set \cup {rd_current} ELSE rd_set
    /\ rd_pc' = "done"
    /\ UNCHANGED <<rd_path, rd_leaf, rd_pos, rd_current>>
    /\ UNCHANGED notDetector

\* the detector enters visit_FunctionDeclaration of f
DetectorInit ==
    /\ rd_path \in SeqsUpTo(NestingNodes, MaxNest)
    /\ rd_leaf \in {"Routine", "PrintStatement"}
    /\ rd_pos = 0
    /\ rd_current = "f"
    /\ rd_set = {}
    /\ rd_pc = "walk"

DetectorIdle ==
    /\ rd_path = <<>>
    /\ rd_leaf = "PrintStatement"
    /\ rd_pos = 0
    /\ rd_current = "f"
    /\ rd_set = {}
    /\ rd_pc = "walk"

DetectorNext == RdVisit \/ RdStatement

\* the function declared at depth k (f at depth 0) has the routine in its own
\* body: under nested blocks, with no function or lambda body in between
OwnRoutine(k) ==
    /\ rd_leaf = "Routine"
    /\ \A j \in (k + 1)..Len(rd_path) :
           rd_path[j] \notin {"FunctionDeclaration", "LambdaExpression", "FunctionExpression"}

\* C22: after the scan pass functions_with_routines holds exactly the
\* functions whose own body contains a routine, through nested blocks but not
\* through a nested function or lambda body.
C22_FunctionsWithRoutinesExact ==
    rd_pc = "done"
        => \A k \in 0..Len(rd_path) :
               (k = 0 \/ rd_path[k] = "FunctionDeclaration")
                   => (NameAt(k) \in rd_set <=> OwnRoutine(k))

(***************************************************************************)
(* global_variables (bootstrap/code_generator.py): visit_Program visits    *)
(* the top-level statements in source order; a statement is a variable     *)
(* declaration, or a function or a test whose body is one statement.       *)
(***************************************************************************)
MaxItems == 3

VarNames == {"x", "y"}

BodyStatements == {<<kind, name>> : kind \in {"VariableDeclaration", "Assignment"}, name \in VarNames}

TopLevel ==
    {<<"VariableDeclaration", name>> : name \in VarNames}
        \cup {<<kind, body>> : kind \in {"FunctionDeclaration", "TestDeclaration"},
                               body \in BodyStatements}

\* _find_global_assignments on a body of one statement
find_global_assignments(body, global_variables) ==
    IF body[1] = "Assignment" /\ body[2] \in global_variables THEN {body[2]} ELSE {}

\* visit_VariableDeclaration: the name is recorded unless in_function
visit_VariableDeclaration(name, in_function, global_variables) ==
    IF ~in_function THEN global_variables \cup {name} ELSE global_variables

\* the body of a function or test: only a declaration touches global_variables
VisitBody(body, in_function, global_variables) ==
    IF body[1] = "VariableDeclaration"
    THEN visit_VariableDeclaration(body[2], in_function, global_variables)
    ELSE global_variables

GvStatement == gv_prog[gv_pos + 1]

GvVariableDeclaration ==
    /\ gv_pos < Len(gv_prog)
    /\ GvStatement[1] = "VariableDeclaration"
    /\ gv_globals' = visit_VariableDeclaration(GvStatement[2], FALSE, gv_globals)
    /\ gv_pos' = gv_pos + 1
    /\ UNCHANGED <<gv_prog, gv_funcs>>
    /\ UNCHANGED notGlobals

\* visit_FunctionDeclaration: in_function is set, the global declaration is
\* computed from global_variables as it is now, then the body is visited
GvFunctionDeclaration ==
    /\ gv_pos < Len(gv_prog)
    /\ GvStatement[1] = "FunctionDeclaration"
    /\ gv_funcs' = Append(gv_funcs,
                          [at |-> gv_pos + 1,
                           globals |-> gv_globals,
                           decl |-> find_global_assignments(GvStatement[2], gv_globals)])
    /\ gv_globals' = VisitBody(GvStatement[2], TRUE, gv_globals)
    /\ gv_pos' = gv_pos + 1
    /\ UNCHANGED gv_prog
    /\ UNCHANGED notGlobals

\* visit_TestDeclaration: the body is visited with in_function as it was
GvTestDeclaration ==
    /\ gv_pos < Len(gv_prog)
    /\ GvStatement[1] = "TestDeclaration"
    /\ gv_globals' = VisitBody(GvStatement[2], FALSE, gv_globals)
    /\ gv_pos' = gv_pos + 1
    /\ UNCHANGED <<gv_prog, gv_funcs>>
    /\ UNCHANGED notGlobals

\* visit_Program after _detect_functions_with_routines, which leaves
\* global_variables empty
GlobalsInit ==
    /\ gv_prog \in SeqsUpTo(TopLevel, MaxItems)
    /\ gv_pos = 0
    /\ gv_globals = {}
    /\ gv_funcs = <<>>

GlobalsIdle ==
    /\ gv_prog = <<>>
    /\ gv_pos = 0
    /\ gv_globals = {}
    /\ gv_funcs = <<>>

GlobalsNext == GvVariableDeclaration \/ GvFunctionDeclaration \/ GvTestDeclaration

\* the names declared at module scope, anywhere in the source
ModuleScope ==
    {gv_prog[i][2] : i \in {j \in 1..Len(gv_prog) : gv_prog[j][1] = "VariableDeclaration"}}

\* C23: when a function body is emitted, global_variables already holds
\* exactly the names declared at module scope, so an assignment to a
\* module-scope name inside the function gets a global declaration.
C23_GlobalsKnownBeforeEmission ==
    \A k \in 1..Len(gv_funcs) :
        LET body == gv_prog[gv_funcs[k].at][2]
        IN  /\ gv_funcs[k].globals = ModuleScope
            /\ (body[1] = "Assignment" /\ body[2] \in ModuleScope) => body[2] \in gv_funcs[k].decl

(***************************************************************************)
(* The bookkeeping of the module loader across failed loads and cleanup.   *)
(***************************************************************************)
\* C24: loading_modules holds exactly the keys of the calls that are inside
\* their try block, so it is empty whenever no load_sailfin_module call is in
\* progress: a failed load leaves no path marked as loading.
C24_LoadingOnlyWhileInProgress ==
    /\ loading_modules = KeysInTry
    /\ stack = <<>> => loading_modules = {}

\* a load that failed two calls deep, in a dependency, has ended
C24_Witness ==
    /\ stack = <<>>
    /\ ret.outcome = "raise"
    /\ ret.depth = 2
    /\ ret.error \in {"ValidationError", "CodeGenerationError", "ParseError"}

\* C25: a load that fails adds none of the paths it was loading to
\* loaded_modules, and a cached fragment is handed out only for a path that a
\* call compiled to the end.
C25_FailedLoadNotCached ==
    [][/\ (stack # <<>> /\ stack' = <<>> /\ ret'.outcome = "raise")
           => \A i \in 1..Len(stack) : stack[i].key \notin DOMAIN loaded_modules'
       /\ (stack # <<>> /\ Top.pc = "enter" /\ Top.key \in DOMAIN loaded_modules
               /\ Exists(Top.key) /\ ~IsBuiltin(Top.source))
           => compiles[Top.key] >= 1]_vars

\* code generation of a module failed after one of its dependencies was cached
C25_Witness ==
    /\ stack = <<>>
    /\ ret.outcome = "raise"
    /\ ret.error = "CodeGenerationError"
    /\ ret.key \notin DOMAIN loaded_modules
    /\ loaded_modules # <<>>

\* C26: every entry of loaded_modules refers to a temp file that is still in
\* temp_files, and a cached load never hands out a fragment that reads a
\* temp file cleanup has deleted.
C26_CachedTempFilesTracked ==
    /\ \A k \in DOMAIN loaded_modules : loaded_modules[k].temp_file \in temp_files
    /\ (ret.outcome = "return" /\ ret.fragment.kind = "readfile")
           => ret.fragment.reads \in temp_files

(***************************************************************************)
(* indent_level, in_function and current_function_name                     *)
(* (bootstrap/code_generator.py): every visitor that opens a block, one     *)
(* visit_* call per frame.                                                  *)
(***************************************************************************)
MaxVisitDepth == 3

FunctionNames == {"f", "g"}

\* None
NoName == ""

Context(indent_level, in_function, current_function_name) ==
    [indent_level |-> indent_level, in_function |-> in_function,
     current_function_name |-> current_function_name]

NoVisit == Context(-1, FALSE, NoName)

\* the visitors that emit a block: the ones that only indent, the ones that
\* also set in_function, and visit_FunctionDeclaration
IndentingNodes == {"TestDeclaration", "IfStatement", "WhileLoop", "LambdaExpression"}

FunctionNodes == {"FunctionExpression", "AsyncBlock", "Routine"}

BlockNodes == IndentingNodes \cup FunctionNodes \cup {"FunctionDeclaration"}

\* the first half of a visitor, up to the loop over node.body
Open(class, name, ctx) ==
    IF class = "FunctionDeclaration" THEN Context(ctx.indent_level + 1, TRUE, name)
    ELSE IF class \in FunctionNodes
         THEN Context(ctx.indent_level + 1, TRUE, ctx.current_function_name)
         ELSE Context(ctx.indent_level + 1, ctx.in_function, ctx.current_function_name)

\* a visitor that forgets to take the indentation back after a lambda body
CloseKeepingIndent(frame, ctx) ==
    Context(IF frame.class = "LambdaExpression" THEN ctx.indent_level
            ELSE ctx.indent_level - 1,
            IF frame.class \in FunctionNodes \cup {"FunctionDeclaration"}
            THEN frame.old_in_function ELSE ctx.in_function,
            IF frame.class = "FunctionDeclaration"
            THEN frame.old_function_name ELSE ctx.current_function_name)

\* the second half of a visitor, after the loop over node.body
Close(frame, ctx) ==
    Context(ctx.indent_level - 1,
            IF frame.class \in FunctionNodes \cup {"FunctionDeclaration"}
            THEN frame.old_in_function ELSE ctx.in_function,
            IF frame.class = "FunctionDeclaration"
            THEN frame.old_function_name ELSE ctx.current_function_name)

\* self.visit(stmt) reaches a visitor that opens a block
CgEnter ==
    /\ cg_pc = "visiting"
    /\ Len(cg_frames) < MaxVisitDepth
    /\ \E class \in BlockNodes, name \in FunctionNames :
           /\ cg_frames' = Append(cg_frames,
                                  [class |-> class,
                                   old_in_function |-> cg_ctx.in_function,
                                   old_function_name |-> cg_ctx.current_function_name,
                                   entry |-> cg_ctx])
           /\ cg_ctx' = Open(class, name, cg_ctx)
    /\ cg_last' = NoVisit
    /\ UNCHANGED cg_pc
    /\ UNCHANGED notContext

\* a visitor that changes nothing: a statement without a block, an
\* expression, a lambda emitted inline
CgLeaf ==
    /\ cg_pc = "visiting"
    /\ cg_last' = cg_ctx
    /\ UNCHANGED <<cg_ctx, cg_frames, cg_pc>>
    /\ UNCHANGED notContext

\* the body is done: the innermost visitor restores the context and returns
CgReturn ==
    /\ cg_pc = "visiting"
    /\ cg_frames # <<>>
    /\ LET frame == cg_frames[Len(cg_frames)] IN
       /\ cg_ctx' = Close(frame, cg_ctx)
       /\ cg_last' = frame.entry
    /\ cg_frames' = SubSeq(cg_frames, 1, Len(cg_frames) - 1)
    /\ UNCHANGED cg_pc
    /\ UNCHANGED notContext

\* visit_Program after its loop: the imports are prepended and the code joined
CgAssemble ==
    /\ cg_pc = "visiting"
    /\ cg_frames = <<>>
    /\ cg_pc' = "assembled"
    /\ UNCHANGED <<cg_ctx, cg_frames, cg_last>>
    /\ UNCHANGED notContext

\* __init__
ContextInit ==
    /\ cg_ctx = Context(0, FALSE, NoName)
    /\ cg_frames = <<>>
    /\ cg_last = NoVisit
    /\ cg_pc = "visiting"

ContextIdle == ContextInit

ContextNext == CgEnter \/ CgLeaf \/ CgReturn \/ CgAssemble

\* C27: a visit that completes leaves indent_level, in_function and
\* current_function_name as they were when it began; indent_level is never
\* negative and is 0 when visit_Program assembles the output.
C27_ContextBalanced ==
    /\ (cg_pc = "visiting" /\ cg_last # NoVisit) => cg_ctx = cg_last
    /\ cg_ctx.indent_level >= 0
    /\ cg_pc = "assembled" => cg_ctx.indent_level = 0

\* the program has been assembled after a routine inside a lambda inside a
\* function was visited: the last visit to complete was the function's
C27_Witness ==
    /\ cg_pc = "assembled"
    /\ cg_last = Context(0, FALSE, NoName)

(***************************************************************************)
(* Termination of the self-hosted lex.                                     *)
(***************************************************************************)
\* C28: every iteration of the main loop of lex strictly increases pos or
\* raises, and the scan ends: lex returns the token list or raises.
C28_LexTerminates ==
    /\ [][(lx_impl = "selfhosted" /\ lx_status = "lexing" /\ lx_pos < Len(lx_source))
              => \/ lx_pos' > lx_pos /\ lx_status' = "lexing"
                 \/ lx_status' \in {"RuntimeError", "IndexError"}]_vars
    /\ (lx_impl = "selfhosted") ~> (lx_status # "lexing")

\* lex has returned from a source of several characters whose last
\* iteration went through the block comment branch
C28_Witness ==
    /\ lx_impl = "selfhosted"
    /\ lx_status = "returned"
    /\ Len(lx_source) >= 3
    /\ lx_branch = "block_comment"
    /\ lx_at > 0

(***************************************************************************)
(* parseBinaryExpression and parseStatement (sailfin_parser.py) on          *)
(* "operand operator operand ... terminator".                               *)
(***************************************************************************)
MaxSelfOps == 2

\* the token kinds getOperatorPrecedence gives a precedence above 0
SelfOperators ==
    {"MULTIPLY", "DIVIDE", "PLUS", "MINUS", "EQ", "NEQ", "LT", "GT", "LEQ", "GEQ"}

TerminatorText ==
    [ SEMICOLON |-> ";", RPAREN |-> ")", COMMA |-> ",", LBRACE |-> "{", EOF |-> "" ]

\* the token list of the parser; the EOF token is not in it, current makes it
SsTokens ==
    OpsTokens(ss_ops)
        \o (IF ss_term = "EOF" THEN <<>> ELSE <<Tok(ss_term, TerminatorText[ss_term])>>)

\* the position of the token after the expression
SsEnd == 2 * Len(ss_ops) + 2

\* expect(parser, expectedType) after a parse that ended at r
expect(tokens, r, expectedType) ==
    IF ~r.ok THEN r
    ELSE IF current(tokens, r.i).type = expectedType THEN Parsed(r.ast, r.i + 1)
    ELSE RuntimeError(r.i)

\* parseBinaryExpression(parser, minPrecedence) with the cursor on the
\* first operand
SsExpression ==
    /\ ss_expr = NoResult
    /\ ss_expr' = parseBinaryExpression(SsTokens, 1, ss_min)
    /\ UNCHANGED <<ss_ops, ss_term, ss_min, ss_stmt>>
    /\ UNCHANGED notSelfStmt

\* parseStatement on an identifier that no ASSIGN follows:
\* "expr = parseExpression(parser); expect(parser, "SEMICOLON")"
SsStatement ==
    /\ ss_stmt = NoResult
    /\ ss_stmt' = LET r == expect(SsTokens, parseExpression(SsTokens, 1), "SEMICOLON")
                  IN  IF r.ok THEN Parsed(<<"ExpressionStatement", r.ast>>, r.i) ELSE r
    /\ UNCHANGED <<ss_ops, ss_term, ss_min, ss_expr>>
    /\ UNCHANGED notSelfStmt

SelfStmtInit ==
    /\ ss_ops \in SeqsUpTo(SelfOperators, MaxSelfOps)
    /\ ss_term \in DOMAIN TerminatorText
    /\ ss_min \in {0, 1}
    /\ ss_expr = NoResult
    /\ ss_stmt = NoResult

SelfStmtIdle ==
    /\ ss_ops = <<>>
    /\ ss_term = "EOF"
    /\ ss_min = 0
    /\ ss_expr = NoResult
    /\ ss_stmt = NoResult

SelfStmtNext == SsExpression \/ SsStatement

\* C29: parseBinaryExpression consumes only tokens of the operator kinds as
\* binary operators: it returns at the first token of any other kind and
\* leaves it unconsumed, so "expr ;" parses as an expression statement.
C29_StopsAtNonOperator ==
    /\ ss_expr # NoResult => (ss_expr.ok /\ ss_expr.i = SsEnd)
    /\ (ss_stmt # NoResult /\ ss_term = "SEMICOLON") => ss_stmt.ok

(***************************************************************************)
(* _TokenStream (bootstrap/parser.py): advance, match, expect, check, peek *)
(* and at_end called in any order on a token list of _tokenize.            *)
(***************************************************************************)
TokenTypes == {t.type : t \in StreamTokens} \cup {"EOF"}

TcCurrent == tc_tokens[tc_index]

TcAtEndNow == TcCurrent.type = "EOF"

Bool(b) == IF b THEN "True" ELSE "False"

TcAdvance ==
    /\ tc_out' = TcCurrent.type
    /\ tc_index' = Advance(tc_tokens, tc_index)
    /\ tc_ended' = (tc_ended \/ TcAtEndNow)
    /\ UNCHANGED tc_tokens
    /\ UNCHANGED notCursor

TcMatch ==
    /\ \E token_types \in (SUBSET TokenTypes) \ {{}} :
           IF TcCurrent.type \in token_types
           THEN /\ tc_out' = TcCurrent.type
                /\ tc_index' = Advance(tc_tokens, tc_index)
           ELSE /\ tc_out' = "None"
                /\ tc_index' = tc_index
    /\ tc_ended' = (tc_ended \/ TcAtEndNow)
    /\ UNCHANGED tc_tokens
    /\ UNCHANGED notCursor

TcExpect ==
    /\ \E token_type \in TokenTypes :
           LET r == Expect(tc_tokens, tc_index, token_type, <<>>)
           IN  /\ tc_out' = IF r.ok THEN token_type ELSE "ParseError"
               /\ tc_index' = r.i
    /\ tc_ended' = (tc_ended \/ TcAtEndNow)
    /\ UNCHANGED tc_tokens
    /\ UNCHANGED notCursor

TcCheck ==
    /\ \E token_type \in TokenTypes :
           tc_out' = Bool(Check(tc_tokens, tc_index, token_type))
    /\ tc_ended' = (tc_ended \/ TcAtEndNow)
    /\ UNCHANGED <<tc_tokens, tc_index>>
    /\ UNCHANGED notCursor

TcPeek ==
    /\ \E offset \in 0..MaxTokens :
           tc_out' = Peek(tc_tokens, tc_index, offset).type
    /\ tc_ended' = (tc_ended \/ TcAtEndNow)
    /\ UNCHANGED <<tc_tokens, tc_index>>
    /\ UNCHANGED notCursor

TcAtEnd ==
    /\ tc_out' = Bool(TcAtEndNow)
    /\ tc_ended' = (tc_ended \/ TcAtEndNow)
    /\ UNCHANGED <<tc_tokens, tc_index>>
    /\ UNCHANGED notCursor

\* _TokenStream(_tokenize(source, lexer))
CursorInit ==
    /\ tc_tokens \in StreamInputs("bootstrap")
    /\ tc_index = 1
    /\ tc_out = "none"
    /\ tc_ended = FALSE

CursorIdle ==
    /\ tc_tokens = <<EofToken>>
    /\ tc_index = 1
    /\ tc_out = "none"
    /\ tc_ended = FALSE

CursorNext == TcAdvance \/ TcMatch \/ TcExpect \/ TcCheck \/ TcPeek \/ TcAtEnd

\* C30: the cursor stays inside the token list (0 <= index < len(tokens),
\* here counted from 1), so current is always defined, and once at_end() is
\* true it stays true.
C30_CursorInBounds ==
    /\ 1 <= tc_index /\ tc_index <= Len(tc_tokens)
    /\ tc_ended => TcAtEndNow

\* advance was called again on the EOF token of a list of several tokens
C30_Witness ==
    /\ tc_ended
    /\ Len(tc_tokens) >= 3
    /\ tc_index = Len(tc_tokens)
    /\ tc_out = "EOF"

(***************************************************************************)
(* The specifications: one per part of the program.                        *)
(***************************************************************************)
Init ==
    /\ DriverIdle /\ GenIdle /\ EntryIdle /\ ChanIdle /\ ScenIdle
    /\ ParseIdle /\ StreamIdle /\ LexIdle /\ PosIdle /\ MatchIdle
    /\ ValidatorIdle /\ DetectorIdle /\ GlobalsIdle /\ ContextIdle
    /\ SelfStmtIdle /\ CursorIdle
    /\ LoaderInit

Next == LoaderNext

Spec == Init /\ [][Next]_vars

InitDriver ==
    /\ LoaderIdle /\ GenIdle /\ EntryIdle /\ ChanIdle /\ ScenIdle
    /\ ParseIdle /\ StreamIdle /\ LexIdle /\ PosIdle /\ MatchIdle
    /\ ValidatorIdle /\ DetectorIdle /\ GlobalsIdle /\ ContextIdle
    /\ SelfStmtIdle /\ CursorIdle
    /\ DriverInit

SpecDriver == InitDriver /\ [][DriverNext]_vars

InitGen ==
    /\ LoaderIdle /\ DriverIdle /\ EntryIdle /\ ChanIdle /\ ScenIdle
    /\ ParseIdle /\ StreamIdle /\ LexIdle /\ PosIdle /\ MatchIdle
    /\ ValidatorIdle /\ DetectorIdle /\ GlobalsIdle /\ ContextIdle
    /\ SelfStmtIdle /\ CursorIdle
    /\ GenInit

SpecGen == InitGen /\ [][GenNext]_vars

InitEntry ==
    /\ LoaderIdle /\ DriverIdle /\ GenIdle /\ ChanIdle /\ ScenIdle
    /\ ParseIdle /\ StreamIdle /\ LexIdle /\ PosIdle /\ MatchIdle
    /\ ValidatorIdle /\ DetectorIdle /\ GlobalsIdle /\ ContextIdle
    /\ SelfStmtIdle /\ CursorIdle
    /\ EntryInit

SpecEntry == InitEntry /\ [][EntryNext]_vars

InitChan ==
    /\ LoaderIdle /\ DriverIdle /\ GenIdle /\ EntryIdle /\ ScenIdle
    /\ ParseIdle /\ StreamIdle /\ LexIdle /\ PosIdle /\ MatchIdle
    /\ ValidatorIdle /\ DetectorIdle /\ GlobalsIdle /\ ContextIdle
    /\ SelfStmtIdle /\ CursorIdle
    /\ ChanInit

SpecChan == InitChan /\ [][ChanNext]_vars

InitScen ==
    /\ LoaderIdle /\ DriverIdle /\ GenIdle /\ EntryIdle /\ ChanIdle
    /\ ParseIdle /\ StreamIdle /\ LexIdle /\ PosIdle /\ MatchIdle
    /\ ValidatorIdle /\ DetectorIdle /\ GlobalsIdle /\ ContextIdle
    /\ SelfStmtIdle /\ CursorIdle
    /\ ScenInit

SpecScen == InitScen /\ [][ScenNext]_vars

InitParse ==
    /\ LoaderIdle /\ DriverIdle /\ GenIdle /\ EntryIdle /\ ChanIdle
    /\ ScenIdle /\ StreamIdle /\ LexIdle /\ PosIdle /\ MatchIdle
    /\ ValidatorIdle /\ DetectorIdle /\ GlobalsIdle /\ ContextIdle
    /\ SelfStmtIdle /\ CursorIdle
    /\ ParseInit

SpecParse == InitParse /\ [][ParseNext]_vars

InitStream ==
    /\ LoaderIdle /\ DriverIdle /\ GenIdle /\ EntryIdle /\ ChanIdle
    /\ ScenIdle /\ ParseIdle /\ LexIdle /\ PosIdle /\ MatchIdle
    /\ ValidatorIdle /\ DetectorIdle /\ GlobalsIdle /\ ContextIdle
    /\ SelfStmtIdle /\ CursorIdle
    /\ StreamInit

SpecStream == InitStream /\ [][StreamNext]_vars

InitLex ==
    /\ LoaderIdle /\ DriverIdle /\ GenIdle /\ EntryIdle /\ ChanIdle
    /\ ScenIdle /\ ParseIdle /\ StreamIdle /\ PosIdle /\ MatchIdle
    /\ ValidatorIdle /\ DetectorIdle /\ GlobalsIdle /\ ContextIdle
    /\ SelfStmtIdle /\ CursorIdle
    /\ LexInit

SpecLex == InitLex /\ [][LexNext]_vars

\* lex alone; its loop keeps running until it returns or raises
InitLexSelf == InitLex /\ lx_impl = "selfhosted"

LexSelfNext == LexStep \/ LexReturn

SpecLexSelf ==
    InitLexSelf /\ [][LexSelfNext]_vars /\ WF_vars(LexStep) /\ WF_vars(LexReturn)

InitPos ==
    /\ LoaderIdle /\ DriverIdle /\ GenIdle /\ EntryIdle /\ ChanIdle
    /\ ScenIdle /\ ParseIdle /\ StreamIdle /\ LexIdle /\ MatchIdle
    /\ ValidatorIdle /\ DetectorIdle /\ GlobalsIdle /\ ContextIdle
    /\ SelfStmtIdle /\ CursorIdle
    /\ PosInit

SpecPos == InitPos /\ [][PosNext]_vars

InitMatch ==
    /\ LoaderIdle /\ DriverIdle /\ GenIdle /\ EntryIdle /\ ChanIdle
    /\ ScenIdle /\ ParseIdle /\ StreamIdle /\ LexIdle /\ PosIdle
    /\ ValidatorIdle /\ DetectorIdle /\ GlobalsIdle /\ ContextIdle
    /\ SelfStmtIdle /\ CursorIdle
    /\ MatchInit

SpecMatch == InitMatch /\ [][MatchNext]_vars

InitValidator ==
    /\ LoaderIdle /\ DriverIdle /\ GenIdle /\ EntryIdle /\ ChanIdle
    /\ ScenIdle /\ ParseIdle /\ StreamIdle /\ LexIdle /\ PosIdle
    /\ MatchIdle /\ DetectorIdle /\ GlobalsIdle /\ ContextIdle
    /\ SelfStmtIdle /\ CursorIdle
    /\ ValidatorInit

SpecValidator == InitValidator /\ [][ValidatorNext]_vars

InitDetector ==
    /\ LoaderIdle /\ DriverIdle /\ GenIdle /\ EntryIdle /\ ChanIdle
    /\ ScenIdle /\ ParseIdle /\ StreamIdle /\ LexIdle /\ PosIdle
    /\ MatchIdle /\ ValidatorIdle /\ GlobalsIdle /\ ContextIdle
    /\ SelfStmtIdle /\ CursorIdle
    /\ DetectorInit

SpecDetector == InitDetector /\ [][DetectorNext]_vars

InitGlobals ==
    /\ LoaderIdle /\ DriverIdle /\ GenIdle /\ EntryIdle /\ ChanIdle
    /\ ScenIdle /\ ParseIdle /\ StreamIdle /\ LexIdle /\ PosIdle
    /\ MatchIdle /\ ValidatorIdle /\ DetectorIdle /\ ContextIdle
    /\ SelfStmtIdle /\ CursorIdle
    /\ GlobalsInit

SpecGlobals == InitGlobals /\ [][GlobalsNext]_vars

InitContext ==
    /\ LoaderIdle /\ DriverIdle /\ GenIdle /\ EntryIdle /\ ChanIdle
    /\ ScenIdle /\ ParseIdle /\ StreamIdle /\ LexIdle /\ PosIdle
    /\ MatchIdle /\ ValidatorIdle /\ DetectorIdle /\ GlobalsIdle
    /\ SelfStmtIdle /\ CursorIdle
    /\ ContextInit

SpecContext == InitContext /\ [][ContextNext]_vars

InitSelfStmt ==
    /\ LoaderIdle /\ DriverIdle /\ GenIdle /\ EntryIdle /\ ChanIdle
    /\ ScenIdle /\ ParseIdle /\ StreamIdle /\ LexIdle /\ PosIdle
    /\ MatchIdle /\ ValidatorIdle /\ DetectorIdle /\ GlobalsIdle
    /\ ContextIdle /\ CursorIdle
    /\ SelfStmtInit

SpecSelfStmt == InitSelfStmt /\ [][SelfStmtNext]_vars

InitCursor ==
    /\ LoaderIdle /\ DriverIdle /\ GenIdle /\ EntryIdle /\ ChanIdle
    /\ ScenIdle /\ ParseIdle /\ StreamIdle /\ LexIdle /\ PosIdle
    /\ MatchIdle /\ ValidatorIdle /\ DetectorIdle /\ GlobalsIdle
    /\ ContextIdle /\ SelfStmtIdle
    /\ CursorInit

SpecCursor == InitCursor /\ [][CursorNext]_vars

====
